---- MODULE Spec2Model ----
(***************************************************************************)
(* Model of the MCP JSON-RPC endpoint of chatgpt-mcp-server:               *)
(*   src/functions/mcp.ts   (the handler and the method handlers),         *)
(*   src/tools/index.ts     (registry, utility tools, executeTool),        *)
(*   src/types/mcp.ts       (JsonRpcRequestSchema, ErrorCodes, McpMethods),*)
(* and of its memory tools:                                                *)
(*   src/types/memory.ts    (the input schemas, toMemoryOutput),           *)
(*   src/lib/supabase.ts    (getSupabaseClient and its singleton),         *)
(*   src/tools/memory.ts    (the five handlers, executeMemoryTool).        *)
(*                                                                         *)
(* Spec is the endpoint; FaultSpec is the endpoint with a runtime that can *)
(* fail inside a tool function; SessionSpec is the endpoint with the       *)
(* history of the process kept; MemSpec is the memory handlers called one  *)
(* at a time against the memories table; ToolSpec is one call of any of    *)
(* the ten tool functions; ClientSpec is getSupabaseClient called again    *)
(* and again while process.env changes; RaceSpec is two memory_update      *)
(* calls in flight at once on one record.                                  *)
(*                                                                         *)
(* src/functions/mcp.ts holds two revisions of the endpoint one after the  *)
(* other; the model follows the first (lines 1-238), the one that handles  *)
(* notifications and InvalidParamsError.  tools/index.ts registers and     *)
(* routes the five utility tools only: the memory tools of tools/memory.ts *)
(* are not reachable through tools/call.                                   *)
(*                                                                         *)
(* JSON values are tagged records [t |-> type, v |-> value]; a JavaScript  *)
(* object is a function from its own property names to values, so that a   *)
(* missing property and a property of the wrong type are different things. *)
(***************************************************************************)
EXTENDS Integers, Sequences, FiniteSets, TLC

VARIABLES
    pc,         \* "idle" | "received" | "responded": position of the invocation
    event,      \* the HandlerEvent of the current invocation
    response,   \* the value the handler returned: statusCode and body
    ran,        \* the functions of mcp.ts / tools that ran, in call order
    listed,     \* history: the tools of the first tools/list answer of the process,
                \* and whether a tool has been executed since
    thrown,     \* the error a tool function raised in this invocation, if any
    initialized,    \* history: an initialize request has been answered
    store,      \* the rows of the memories table
    clock,      \* the instant of the latest change of the table
    supabaseInstance,   \* let supabaseInstance of lib/supabase.ts
    env,        \* process.env: SUPABASE_URL and SUPABASE_ANON_KEY
    memcall,    \* the call in progress of a memory handler, of a tool function or
                \* of getSupabaseClient: arguments, requests, outcome
    justSaved,  \* history: the id saved by the call before this one, if it saved
    justForgot  \* history: the userId, id and count of the call before this one,
                \* if it was a memory_forget by id that completed without error

httpvars == <<pc, event, response, ran, listed, thrown, initialized>>
memvars == <<store, clock, supabaseInstance, env, memcall, justSaved, justForgot>>
vars == <<httpvars, memvars>>

-----------------------------------------------------------------------------
(* JSON values *)

Undefined == [t |-> "undefined"]
Null      == [t |-> "null"]
Str(s)    == [t |-> "string", v |-> s]
Num(n)    == [t |-> "number", v |-> n]
Bool(b)   == [t |-> "boolean", v |-> b]
Arr(s)    == [t |-> "array", v |-> s]
Obj(f)    == [t |-> "object", v |-> f]

EmptyFields == [k \in {} |-> Undefined]

\* An object literal: the properties of r whose value is not undefined.
MkObj(r) == Obj([k \in {k \in DOMAIN r : r[k] # Undefined} |-> r[k]])

\* o.k of a JavaScript object: undefined when o has no own property k.
Get(o, k) == IF k \in DOMAIN o.v THEN o.v[k] ELSE Undefined

IsString(x) == x.t = "string"
IsNumber(x) == x.t = "number"
IsObject(x) == x.t = "object"

\* JavaScript truthiness of a JSON value.
Truthy(x) ==
    CASE x.t = "undefined" -> FALSE
      [] x.t = "null"      -> FALSE
      [] x.t = "string"    -> x.v # ""
      [] x.t = "number"    -> x.v # 0
      [] x.t = "boolean"   -> x.v
      [] OTHER             -> TRUE

-----------------------------------------------------------------------------
(* Bounds of the model *)

MaxNum == 1          \* calculate operands range over -MaxNum..MaxNum
MaxClock == 1        \* Date.now() ranges over 0..MaxClock

-----------------------------------------------------------------------------
(* Strings and texts.  A string is either plain text, Text(s), or the JSON *)
(* text of a value, JsonText(v) = JSON.stringify(v).                       *)

Text(s)     == [enc |-> "plain", s |-> s]
JsonText(v) == [enc |-> "json", v |-> v]

Digits == {"0", "1", "2", "3", "4", "5", "6", "7", "8", "9"}

IsNumeral(s) ==
    /\ Len(s) > 0
    /\ \A i \in 1..Len(s) : SubSeq(s, i, i) \in Digits
    /\ (Len(s) > 1 => SubSeq(s, 1, 1) # "0")

RECURSIVE NumeralValue(_)
NumeralValue(s) ==
    IF Len(s) = 0 THEN 0
    ELSE 10 * NumeralValue(SubSeq(s, 1, Len(s) - 1))
         + (CHOOSE d \in 0..9 : SubSeq("0123456789", d + 1, d + 1) = SubSeq(s, Len(s), Len(s)))

\* Mutant: a text that is not JSON is taken as the empty object instead of
\* raising a SyntaxError.
JSONparse_Lenient(x) ==
    IF x.enc = "json" THEN [ok |-> TRUE, value |-> x.v]
    ELSE [ok |-> TRUE, value |-> Obj(EmptyFields)]

\* JSON.parse: the value, or a SyntaxError.  Plain texts are recognised as
\* JSON only in the forms below (the literals and unsigned integers); every
\* plain text the model feeds to the handler is classified correctly by it.
JSONparse(x) ==
    IF x.enc = "json" THEN [ok |-> TRUE, value |-> x.v]
    ELSE CASE x.s = "null"  -> [ok |-> TRUE, value |-> Null]
           [] x.s = "true"  -> [ok |-> TRUE, value |-> Bool(TRUE)]
           [] x.s = "false" -> [ok |-> TRUE, value |-> Bool(FALSE)]
           [] x.s = "{}"    -> [ok |-> TRUE, value |-> Obj(EmptyFields)]
           [] x.s = "[]"    -> [ok |-> TRUE, value |-> Arr(<<>>)]
           [] IsNumeral(x.s) -> [ok |-> TRUE, value |-> Num(NumeralValue(x.s))]
           [] OTHER         -> [ok |-> FALSE, value |-> Undefined]

\* JSON.stringify of an object built by an object literal: a property whose
\* value is undefined is left out of the text ...
StripUndefined(f) == [k \in {k \in DOMAIN f : f[k] # Undefined} |-> f[k]]

StripValue(x) == IF x.t = "object" THEN Obj(StripUndefined(x.v)) ELSE x

\* ... at both levels at which the handler's objects can hold undefined
\* (the envelope, and the error object in it).
JSONstringify(o) ==
    LET top == StripUndefined(o)
    IN JsonText(Obj([k \in DOMAIN top |-> StripValue(top[k])]))

-----------------------------------------------------------------------------
(* src/types/mcp.ts *)

PARSE_ERROR      == -32700
INVALID_REQUEST  == -32600
METHOD_NOT_FOUND == -32601
INVALID_PARAMS   == -32602
INTERNAL_ERROR   == -32603

INITIALIZE == "initialize"
TOOLS_LIST == "tools/list"
TOOLS_CALL == "tools/call"
PING       == "ping"

Issue(path, code) == [path |-> path, code |-> code]

\* The issues of one property of the request shape, in zod's terms.
JsonrpcIssues(x) ==
    IF x = Str("2.0") THEN <<>> ELSE <<Issue("jsonrpc", "invalid_literal")>>
\* Mutant: the id is accepted whatever its type.
IdIssues_AnyType(x) == <<>>

IdIssues(x) ==
    IF x.t \in {"undefined", "string", "number", "null"} THEN <<>>
    ELSE <<Issue("id", "invalid_union")>>
MethodIssues(x) ==
    IF IsString(x) THEN <<>> ELSE <<Issue("method", "invalid_type")>>
ParamsIssues(x) ==
    IF x.t \in {"undefined", "object"} THEN <<>>
    ELSE <<Issue("params", "invalid_type")>>

\* JsonRpcRequestSchema.safeParse(body)
JsonRpcRequestSchema(body) ==
    IF ~IsObject(body)
    THEN [success |-> FALSE, issues |-> <<Issue("", "invalid_type")>>, data |-> Undefined]
    ELSE LET issues == JsonrpcIssues(Get(body, "jsonrpc")) \o IdIssues(Get(body, "id"))
                       \o MethodIssues(Get(body, "method")) \o ParamsIssues(Get(body, "params"))
         IN IF issues # <<>>
            THEN [success |-> FALSE, issues |-> issues, data |-> Undefined]
            ELSE [success |-> TRUE, issues |-> <<>>,
                  data |-> MkObj([jsonrpc |-> Get(body, "jsonrpc"), id |-> Get(body, "id"),
                                  method |-> Get(body, "method"), params |-> Get(body, "params")])]

\* class InvalidParamsError extends Error
InvalidParamsError(message) == [class |-> "InvalidParamsError", message |-> message]

-----------------------------------------------------------------------------
(* src/tools/index.ts *)

EchoMaxLength == 10000
TextStatsMaxLength == 50000

\* Mutant: a definition is registered without its required list.
ToolDef_NoRequired(name, properties, required) ==
    [name |-> name,
     inputSchema |-> [type |-> "object", properties |-> properties]]

ToolDef(name, properties, required) ==
    [name |-> name,
     inputSchema |-> [type |-> "object", properties |-> properties, required |-> required]]

\* export const toolDefinitions: McpTool[]
toolDefinitions ==
    << ToolDef("echo", {"text"}, <<"text">>),
       ToolDef("get_current_time", {}, <<>>),
       ToolDef("calculate", {"operation", "a", "b"}, <<"operation", "a", "b">>),
       ToolDef("generate_uuid", {}, <<>>),
       ToolDef("text_stats", {"text"}, <<"text">>) >>

Operations == {"add", "subtract", "multiply", "divide"}

RECURSIVE JoinIssues(_)
JoinIssues(issues) ==
    IF issues = <<>> THEN ""
    ELSE issues[1].code \o " at " \o issues[1].path
         \o (IF Len(issues) > 1 THEN "; " ELSE "") \o JoinIssues(Tail(issues))

\* ZodError.message: the text of the issue list.
ZodMessage(issues) == JoinIssues(issues)

\* z.string().min(lo).max(hi) on property k of args
StringIssues(args, k, lo, hi) ==
    LET x == Get(args, k)
    IN IF ~IsString(x) THEN <<Issue(k, "invalid_type")>>
       ELSE IF Len(x.v) < lo THEN <<Issue(k, "too_small")>>
       ELSE IF Len(x.v) > hi THEN <<Issue(k, "too_big")>>
       ELSE <<>>

NumberIssues(args, k) ==
    IF IsNumber(Get(args, k)) THEN <<>> ELSE <<Issue(k, "invalid_type")>>

\* const EchoInputSchema = z.object({ text: z.string().min(1).max(10000) })
EchoInputSchema(args) ==
    IF ~IsObject(args) THEN <<Issue("", "invalid_type")>>
    ELSE StringIssues(args, "text", 1, EchoMaxLength)

\* const CalculateInputSchema = z.object({ operation: z.enum([...]), a, b })
CalculateInputSchema(args) ==
    IF ~IsObject(args) THEN <<Issue("", "invalid_type")>>
    ELSE LET op == Get(args, "operation")
         IN (IF ~IsString(op) THEN <<Issue("operation", "invalid_type")>>
             ELSE IF op.v \notin Operations THEN <<Issue("operation", "invalid_enum_value")>>
             ELSE <<>>)
            \o NumberIssues(args, "a") \o NumberIssues(args, "b")

\* const TextStatsInputSchema = z.object({ text: z.string().min(1).max(50000) })
TextStatsInputSchema(args) ==
    IF ~IsObject(args) THEN <<Issue("", "invalid_type")>>
    ELSE StringIssues(args, "text", 1, TextStatsMaxLength)

TextContent(text) == [type |-> "text", text |-> text]

\* { content: [...] }   and   { content: [...], isError: true }
ToolResult(text) == Obj([content |-> Arr(<<TextContent(text)>>)])
ToolError(text)  == Obj([content |-> Arr(<<TextContent(text)>>), isError |-> Bool(TRUE)])

\* Mutant: the validation message is returned without the isError flag.
InvalidInput_NoFlag(issues) == ToolResult(Text("Invalid input: " \o ZodMessage(issues)))

InvalidInput(issues) == ToolError(Text("Invalid input: " \o ZodMessage(issues)))

echo(args) ==
    LET issues == EchoInputSchema(args)
    IN IF issues # <<>> THEN InvalidInput(issues)
       ELSE ToolResult(Text(Get(args, "text").v))

getCurrentTime(now) ==
    ToolResult(JsonText(Obj([utc |-> Str(now.iso), timestamp |-> Num(now.ms)])))

Abs(x) == IF x < 0 THEN -x ELSE x

RECURSIVE GCD(_, _)
GCD(x, y) == IF y = 0 THEN x ELSE GCD(y, x % y)

\* a / b for b # 0: an integer when the division is exact, else the fraction
\* in lowest terms.
Quotient(a, b) ==
    LET sign == IF (a < 0) # (b < 0) THEN -1 ELSE 1
        g == GCD(Abs(a), Abs(b))
    IN IF Abs(a) % Abs(b) = 0 THEN Num(sign * (Abs(a) \div Abs(b)))
       ELSE [t |-> "number", num |-> sign * (Abs(a) \div g), den |-> Abs(b) \div g]

calculate(args) ==
    LET issues == CalculateInputSchema(args)
        operation == Get(args, "operation").v
        a == Get(args, "a").v
        b == Get(args, "b").v
        Done(result) ==
            ToolResult(JsonText(Obj([operation |-> Str(operation), a |-> Num(a),
                                     b |-> Num(b), result |-> result])))
    IN IF issues # <<>> THEN InvalidInput(issues)
       ELSE CASE operation = "add"      -> Done(Num(a + b))
              [] operation = "subtract" -> Done(Num(a - b))
              [] operation = "multiply" -> Done(Num(a * b))
              [] operation = "divide"   ->
                    IF b = 0 THEN ToolError(Text("Error: Division by zero"))
                    ELSE Done(Quotient(a, b))

UuidTemplate == "xxxxxxxx-xxxx-4xxx-yxxx-xxxxxxxxxxxx"

Hex(v) == SubSeq("0123456789abcdef", v + 1, v + 1)

\* The replace callback: r = (Math.random() * 16) | 0 is rnd[i], the draw
\* made for the character at position i of the template.
RECURSIVE UuidFrom(_, _)
UuidFrom(i, rnd) ==
    IF i > Len(UuidTemplate) THEN ""
    ELSE LET c == SubSeq(UuidTemplate, i, i)
             r == rnd[i]
         IN (CASE c = "x" -> Hex(r)
               [] c = "y" -> Hex((r % 4) + 8)
               [] OTHER   -> c)
            \o UuidFrom(i + 1, rnd)

generateUuid(rnd) == ToolResult(JsonText(Obj([uuid |-> Str(UuidFrom(1, rnd))])))

IsSpace(c) == c \in {" ", "\t", "\n"}
IsTerminator(c) == c \in {".", "!", "?"}
Char(s, i) == SubSeq(s, i, i)

\* text.trim().split(/\s+/).filter(w => w.length > 0).length
WordCount(s) ==
    Cardinality({i \in 1..Len(s) :
        ~IsSpace(Char(s, i)) /\ (i = 1 \/ IsSpace(Char(s, i - 1)))})

\* words.reduce((sum, w) => sum + w.length, 0)
WordChars(s) == Cardinality({i \in 1..Len(s) : ~IsSpace(Char(s, i))})

\* text.split(/[.!?]+/).filter(s => s.trim().length > 0).length: a piece
\* counts when it holds a character that is neither space nor terminator;
\* position i is the first such character of its piece.
SentenceCount(s) ==
    LET Content(i) == ~IsSpace(Char(s, i)) /\ ~IsTerminator(Char(s, i))
    IN Cardinality({i \in 1..Len(s) :
          /\ Content(i)
          /\ \A j \in 1..(i - 1) :
                Content(j) => \E k \in (j + 1)..(i - 1) : IsTerminator(Char(s, k))})

\* parseFloat((sum / wordCount).toFixed(2)): hundredths, rounded to nearest
AverageWordLength(s) ==
    IF WordCount(s) > 0
    THEN Quotient((200 * WordChars(s) + WordCount(s)) \div (2 * WordCount(s)), 100)
    ELSE Num(0)

textStats(args) ==
    LET issues == TextStatsInputSchema(args)
        text == Get(args, "text").v
    IN IF issues # <<>> THEN InvalidInput(issues)
       ELSE ToolResult(JsonText(Obj([characters |-> Num(Len(text)),
                                     words |-> Num(WordCount(text)),
                                     sentences |-> Num(SentenceCount(text)),
                                     averageWordLength |-> AverageWordLength(text)])))

Returned(value, tool) == [kind |-> "return", value |-> value, tool |-> tool]
Thrown(error, tool)   == [kind |-> "throw", error |-> error, tool |-> tool]

\* export function executeTool(name, args): the tool's result, with the name
\* of the tool function that ran ("" when the switch falls to its default).
executeTool(name, args, now, rnd) ==
    CASE name = "echo"             -> Returned(echo(args), "echo")
      [] name = "get_current_time" -> Returned(getCurrentTime(now), "getCurrentTime")
      [] name = "calculate"        -> Returned(calculate(args), "calculate")
      [] name = "generate_uuid"    -> Returned(generateUuid(rnd), "generateUuid")
      [] name = "text_stats"       -> Returned(textStats(args), "textStats")
      [] OTHER -> Returned(ToolError(Text("Unknown tool: " \o name)), "")

-----------------------------------------------------------------------------
(* src/functions/mcp.ts *)

SERVER_INFO == Obj([name |-> Str("chatgpt-mcp-server"), version |-> Str("1.0.0")])
PROTOCOL_VERSION == "2024-11-05"

\* function createResponse(id, result): JsonRpcResponse
createResponse(id, result) ==
    [jsonrpc |-> Str("2.0"), id |-> id, result |-> result]

\* Mutant: an error envelope built with id null takes the string or number
\* id found in the body of the request.
createErrorResponse_SentId(id, code, message, data) ==
    [jsonrpc |-> Str("2.0"),
     id |-> IF /\ id = Null /\ event.body # Null /\ event.body.enc = "json"
               /\ IsObject(event.body.v)
               /\ Get(event.body.v, "id").t \in {"string", "number"}
            THEN Get(event.body.v, "id") ELSE id,
     error |-> Obj([code |-> Num(code), message |-> Str(message), data |-> data])]

\* Mutant: the error envelope is built with id null instead of the given id.
createErrorResponse_NullId(id, code, message, data) ==
    [jsonrpc |-> Str("2.0"), id |-> Null,
     error |-> Obj([code |-> Num(code), message |-> Str(message), data |-> data])]

\* function createErrorResponse(id, code, message, data?): JsonRpcResponse
createErrorResponse(id, code, message, data) ==
    [jsonrpc |-> Str("2.0"), id |-> id,
     error |-> Obj([code |-> Num(code), message |-> Str(message), data |-> data])]

\* Mutant: a second initialize of the same process is refused.
handleInitialize_Once(id) ==
    IF initialized
    THEN createErrorResponse(id, INVALID_REQUEST, "Already initialized", Undefined)
    ELSE createResponse(id,
            Obj([protocolVersion |-> Str(PROTOCOL_VERSION),
                 capabilities |-> Obj([tools |-> Obj([listChanged |-> Bool(FALSE)])]),
                 serverInfo |-> SERVER_INFO]))

\* function handleInitialize(id): JsonRpcResponse
handleInitialize(id) ==
    createResponse(id,
        Obj([protocolVersion |-> Str(PROTOCOL_VERSION),
             capabilities |-> Obj([tools |-> Obj([listChanged |-> Bool(FALSE)])]),
             serverInfo |-> SERVER_INFO]))

handleToolsList(id) ==
    createResponse(id, Obj([tools |-> Arr(toolDefinitions)]))

\* Mutant: the registry lookup is skipped, every name goes to executeTool.
toolExists_Always(name) == TRUE

\* toolDefinitions.some((t) => t.name === toolParams.name)
toolExists(name) == \E i \in DOMAIN toolDefinitions : toolDefinitions[i].name = name

\* function handleToolsCall(id, params): the envelope, and the functions
\* that ran, if any.
\* An Error instance raised by the runtime while a tool function runs.
RuntimeError(class, message) == [class |-> class, message |-> message]
NoFault == [class |-> "", message |-> ""]

\* Mutant: the catch reports every failure as invalid params.
CatchToolError_InvalidParams(id, error) ==
    createErrorResponse(id, INVALID_PARAMS, "Invalid params", Str(error.message))

\* catch (error) { ... } of handleToolsCall
CatchToolError(id, error) ==
    IF error.class = "InvalidParamsError"
    THEN createErrorResponse(id, INVALID_PARAMS, "Invalid params", Str(error.message))
    ELSE createErrorResponse(id, INTERNAL_ERROR, "Internal error", Str(error.message))

handleToolsCall(id, params, now, rnd, fault) ==
    IF ~Truthy(params) \/ ~IsString(Get(params, "name"))
    THEN [envelope |-> createErrorResponse(id, INVALID_PARAMS,
                            "Missing required parameter: name", Undefined),
          ran |-> <<>>]
    ELSE LET name == Get(params, "name").v
             arguments == IF Truthy(Get(params, "arguments"))
                          THEN Get(params, "arguments") ELSE Obj(EmptyFields)
             executed == executeTool(name, arguments, now, rnd)
             outcome == IF fault = NoFault THEN executed
                        ELSE Thrown(fault, executed.tool)
             tools == IF outcome.tool = "" THEN <<>> ELSE <<outcome.tool>>
         IN IF ~toolExists(name)
            THEN [envelope |-> createErrorResponse(id, INVALID_PARAMS,
                                    "Unknown tool: " \o name, Undefined),
                  ran |-> <<>>]
            ELSE IF outcome.kind = "return"
            THEN [envelope |-> createResponse(id, outcome.value),
                  ran |-> <<"executeTool">> \o tools]
            ELSE [envelope |-> CatchToolError(id, outcome.error),
                  ran |-> <<"executeTool">> \o tools]

handlePing(id) == createResponse(id, Obj(EmptyFields))

EmptyBody == Text("")

HttpResponse(statusCode, body, fns) ==
    [statusCode |-> statusCode, body |-> body, ran |-> fns]

\* Mutant: the POST check is missing.
MethodAllowed_Any(httpMethod) == TRUE

\* if (event.httpMethod !== 'POST'), after the OPTIONS case
MethodAllowed(httpMethod) == httpMethod = "POST"

\* Mutant: only a missing id marks a notification, an explicit null does not.
IsNotification_UndefinedOnly(id) == id = Undefined

\* if (request.id === null || request.id === undefined)
IsNotification(id) == id = Null \/ id = Undefined

\* Mutant: the message does not interpolate the method.
MethodNotFoundMessage_NoName(method) == "Method not found"

\* `Method not found: ${request.method}`
MethodNotFoundMessage(method) == "Method not found: " \o method

\* Mutant: an error envelope is sent with status 500.
Respond_ErrorStatus(envelope, fns) ==
    HttpResponse(IF "error" \in DOMAIN envelope THEN 500 ELSE 200,
                 JSONstringify(envelope), fns)

\* return { statusCode: 200, headers: corsHeaders, body: JSON.stringify(response) }
Respond(envelope, fns) == HttpResponse(200, JSONstringify(envelope), fns)

\* Mutant: the body is parsed as it is, an absent one as the text null.
RawBody_AsIs(body) == IF body = Null THEN Text("null") ELSE body

\* event.body || '{}'
RawBody(body) == IF body = Null \/ body = Text("") THEN Text("{}") ELSE body

\* const handler: Handler = async (event, _context) => ...
handler(ev, now, rnd, fault) ==
    IF ev.httpMethod = "OPTIONS" THEN HttpResponse(204, EmptyBody, <<>>)
    ELSE IF ~MethodAllowed(ev.httpMethod)
    THEN HttpResponse(405,
            JSONstringify(createErrorResponse(Null, INVALID_REQUEST,
                                              "Method not allowed", Undefined)), <<>>)
    ELSE LET raw == RawBody(ev.body)
             parsed == JSONparse(raw)
             body == parsed.value
             parseResult == JsonRpcRequestSchema(body)
             request == parseResult.data
             id == Get(request, "id")
             method == Get(request, "method").v
             params == Get(request, "params")
             call == handleToolsCall(id, params, now, rnd, fault)
         IN IF ~parsed.ok
            THEN HttpResponse(400,
                    JSONstringify(createErrorResponse(Null, PARSE_ERROR,
                                                      "Invalid JSON", Undefined)),
                    <<"JSON.parse">>)
            ELSE IF ~parseResult.success
            THEN HttpResponse(400,
                    JSONstringify(createErrorResponse(Null, INVALID_REQUEST,
                        "Invalid JSON-RPC request", Arr(parseResult.issues))),
                    <<"JSON.parse", "safeParse">>)
            ELSE IF IsNotification(id)
            THEN HttpResponse(204, EmptyBody, <<"JSON.parse", "safeParse">>)
            ELSE CASE method = INITIALIZE ->
                        Respond(handleInitialize(id),
                                <<"JSON.parse", "safeParse", "handleInitialize">>)
                   [] method = TOOLS_LIST ->
                        Respond(handleToolsList(id),
                                <<"JSON.parse", "safeParse", "handleToolsList">>)
                   [] method = TOOLS_CALL ->
                        Respond(call.envelope,
                                <<"JSON.parse", "safeParse", "handleToolsCall">> \o call.ran)
                   [] method = PING ->
                        Respond(handlePing(id),
                                <<"JSON.parse", "safeParse", "handlePing">>)
                   [] OTHER ->
                        Respond(createErrorResponse(id, METHOD_NOT_FOUND,
                                    MethodNotFoundMessage(method), Undefined),
                                <<"JSON.parse", "safeParse">>)

-----------------------------------------------------------------------------
(* src/types/memory.ts: the input schemas of the memory tools.  A schema    *)
(* gives the messages of the issues zod reports, in field order, and the    *)
(* parsed data with the defaults filled in.                                 *)

MemoryTypeSchema == {"preference", "profile", "task", "note", "fact"}

ContentMaxLength == 50000
QueryMaxLength == 1000
ImportanceMin == -10
ImportanceMax == 10
LimitMin == 1
LimitMax == 100
SearchLimitDefault == 10
ListLimitDefault == 20

\* z.string().min(lo, loMsg)
ZStringMin(x, lo, loMsg) ==
    IF x = Undefined THEN <<"Required">>
    ELSE IF ~IsString(x) THEN <<"Expected string, received " \o x.t>>
    ELSE IF Len(x.v) < lo THEN <<loMsg>>
    ELSE <<>>

\* z.string().min(lo, loMsg).max(hi, hiMsg)
ZString(x, lo, loMsg, hi, hiMsg) ==
    IF ZStringMin(x, lo, loMsg) # <<>> THEN ZStringMin(x, lo, loMsg)
    ELSE IF Len(x.v) > hi THEN <<hiMsg>>
    ELSE <<>>

\* z.string().optional()
ZOptionalString(x) ==
    IF x = Undefined \/ IsString(x) THEN <<>>
    ELSE <<"Expected string, received " \o x.t>>

\* MemoryTypeSchema.optional()
ZOptionalType(x) ==
    IF x = Undefined THEN <<>>
    ELSE IF IsString(x) /\ x.v \in MemoryTypeSchema THEN <<>>
    ELSE <<"Invalid enum value. Expected 'preference' | 'profile' | 'task' | 'note' | 'fact'">>

\* z.number().int().min(lo).optional(): the numbers of the model are integers
ZOptionalIntMin(x, lo) ==
    IF x = Undefined THEN <<>>
    ELSE IF ~IsNumber(x) THEN <<"Expected number, received " \o x.t>>
    ELSE IF x.v < lo THEN <<"Number must be greater than or equal to " \o ToString(lo)>>
    ELSE <<>>

\* z.number().int().min(lo).max(hi).optional()
ZOptionalInt(x, lo, hi) ==
    IF ZOptionalIntMin(x, lo) # <<>> THEN ZOptionalIntMin(x, lo)
    ELSE IF x # Undefined /\ x.v > hi THEN <<"Number must be less than or equal to " \o ToString(hi)>>
    ELSE <<>>

\* z.array(z.string()).optional()
ZOptionalTags(x) ==
    IF x = Undefined THEN <<>>
    ELSE IF x.t # "array" THEN <<"Expected array, received " \o x.t>>
    ELSE IF \E i \in DOMAIN x.v : ~IsString(x.v[i]) THEN <<"Expected string, received other">>
    ELSE <<>>

ZObject(args) ==
    IF IsObject(args) THEN <<>>
    ELSE IF args = Undefined THEN <<"Required">>
    ELSE <<"Expected object, received " \o args.t>>

Default(x, dflt) == IF x = Undefined THEN dflt ELSE x

Parsed(messages, data) ==
    [success |-> messages = <<>>, messages |-> messages, data |-> data]

MemorySaveInputSchema(args) ==
    IF ~IsObject(args) THEN Parsed(ZObject(args), Undefined)
    ELSE Parsed(ZStringMin(Get(args, "userId"), 1, "userId is required")
                \o ZString(Get(args, "content"), 1, "content is required",
                           ContentMaxLength, "content too long")
                \o ZOptionalType(Get(args, "type"))
                \o ZOptionalTags(Get(args, "tags"))
                \o ZOptionalInt(Get(args, "importance"), ImportanceMin, ImportanceMax)
                \o ZOptionalString(Get(args, "sessionId")),
                [userId |-> Get(args, "userId"),
                 content |-> Get(args, "content"),
                 type |-> Default(Get(args, "type"), Str("note")),
                 tags |-> Get(args, "tags"),
                 importance |-> Default(Get(args, "importance"), Num(0)),
                 sessionId |-> Get(args, "sessionId")])

MemorySearchInputSchema(args) ==
    IF ~IsObject(args) THEN Parsed(ZObject(args), Undefined)
    ELSE Parsed(ZStringMin(Get(args, "userId"), 1, "userId is required")
                \o ZString(Get(args, "query"), 1, "query is required",
                           QueryMaxLength, "query too long")
                \o ZOptionalInt(Get(args, "limit"), LimitMin, LimitMax)
                \o ZOptionalType(Get(args, "type"))
                \o ZOptionalString(Get(args, "sessionId")),
                [userId |-> Get(args, "userId"),
                 query |-> Get(args, "query"),
                 limit |-> Default(Get(args, "limit"), Num(SearchLimitDefault)),
                 type |-> Get(args, "type"),
                 sessionId |-> Get(args, "sessionId")])

\* Mutant: the schema has no refinement.
ForgetRefine_None(id, contentMatch) == <<>>

\* .refine((data) => data.id || data.contentMatch): run by zod only when the
\* object itself has no issue.
ForgetRefine(id, contentMatch) ==
    IF Truthy(id) \/ Truthy(contentMatch) THEN <<>>
    ELSE <<"Either id or contentMatch must be provided">>

MemoryForgetInputSchema(args) ==
    IF ~IsObject(args) THEN Parsed(ZObject(args), Undefined)
    ELSE LET fields == ZStringMin(Get(args, "userId"), 1, "userId is required")
                       \o ZOptionalString(Get(args, "id"))
                       \o ZOptionalString(Get(args, "contentMatch"))
         IN Parsed(IF fields # <<>> THEN fields
                   ELSE ForgetRefine(Get(args, "id"), Get(args, "contentMatch")),
                   [userId |-> Get(args, "userId"),
                    id |-> Get(args, "id"),
                    contentMatch |-> Get(args, "contentMatch")])

MemoryListInputSchema(args) ==
    IF ~IsObject(args) THEN Parsed(ZObject(args), Undefined)
    ELSE Parsed(ZStringMin(Get(args, "userId"), 1, "userId is required")
                \o ZOptionalType(Get(args, "type"))
                \o ZOptionalInt(Get(args, "limit"), LimitMin, LimitMax)
                \o ZOptionalIntMin(Get(args, "offset"), 0),
                [userId |-> Get(args, "userId"),
                 type |-> Get(args, "type"),
                 limit |-> Default(Get(args, "limit"), Num(ListLimitDefault)),
                 offset |-> Default(Get(args, "offset"), Num(0))])

MemoryUpdateInputSchema(args) ==
    IF ~IsObject(args) THEN Parsed(ZObject(args), Undefined)
    ELSE Parsed(ZStringMin(Get(args, "userId"), 1, "userId is required")
                \o ZStringMin(Get(args, "id"), 1, "id is required")
                \o (IF Get(args, "content") = Undefined THEN <<>>
                    ELSE ZString(Get(args, "content"), 1,
                                 "String must contain at least 1 character(s)",
                                 ContentMaxLength,
                                 "String must contain at most 50000 character(s)"))
                \o ZOptionalType(Get(args, "type"))
                \o ZOptionalTags(Get(args, "tags"))
                \o ZOptionalInt(Get(args, "importance"), ImportanceMin, ImportanceMax),
                [userId |-> Get(args, "userId"),
                 id |-> Get(args, "id"),
                 content |-> Get(args, "content"),
                 type |-> Get(args, "type"),
                 tags |-> Get(args, "tags"),
                 importance |-> Get(args, "importance")])

-----------------------------------------------------------------------------
(* The memories table behind the Supabase client, as the README creates it, *)
(* and the requests src/tools/memory.ts builds against it.  A request is a  *)
(* record: the verb, the filters in the order the builder added them, and   *)
(* the modifiers (order, limit, range, select, single).                     *)

\* timestamptz columns and new Date().toISOString(): instant t as ISO text
IsoOf(t) == "1970-01-01T00:00:00.00" \o Hex(t) \o "Z"
TimeOf(x) == CHOOSE t \in 0..15 : Str(IsoOf(t)) = x

\* id uuid DEFAULT gen_random_uuid(): the n-th insert draws a fresh id
FreshId(n) == "m" \o Hex(n)

UpperCase == "ABCDEFGHIJKLMNOPQRSTUVWXYZ"
LowerCase == "abcdefghijklmnopqrstuvwxyz"
Lower(c) ==
    IF \E i \in 1..Len(UpperCase) : Char(UpperCase, i) = c
    THEN Char(LowerCase, CHOOSE i \in 1..Len(UpperCase) : Char(UpperCase, i) = c)
    ELSE c

Rest(s) == SubSeq(s, 2, Len(s))

\* text ILIKE pattern: % is any run of characters, _ any one character, a
\* backslash takes the next character literally; letters match in either case.
RECURSIVE Like(_, _)
Like(pattern, text) ==
    IF pattern = "" THEN text = ""
    ELSE LET c == Char(pattern, 1)
         IN CASE c = "%" -> \/ Like(Rest(pattern), text)
                            \/ text # "" /\ Like(pattern, Rest(text))
              [] c = "_" -> text # "" /\ Like(Rest(pattern), Rest(text))
              [] c = "\\" -> /\ Len(pattern) > 1 /\ text # ""
                             /\ Lower(Char(pattern, 2)) = Lower(Char(text, 1))
                             /\ Like(Rest(Rest(pattern)), Rest(text))
              [] OTHER -> /\ text # ""
                          /\ Lower(c) = Lower(Char(text, 1))
                          /\ Like(Rest(pattern), Rest(text))

\* PostgREST reads * in the operand of like / ilike as %.
RECURSIVE PostgrestPattern(_)
PostgrestPattern(p) ==
    IF p = "" THEN ""
    ELSE (IF Char(p, 1) = "*" THEN "%" ELSE Char(p, 1)) \o PostgrestPattern(Rest(p))

Eq(column, value) == [op |-> "eq", column |-> column, value |-> value]
ILike(column, pattern) == [op |-> "ilike", column |-> column, value |-> pattern]

Holds(filter, row) ==
    IF filter.op = "eq" THEN row[filter.column] = Str(filter.value)
    ELSE /\ IsString(row[filter.column])
         /\ Like(PostgrestPattern(filter.value), row[filter.column].v)

Matching(rows, filters) ==
    {row \in rows : \A i \in DOMAIN filters : Holds(filters[i], row)}

\* Mutant: within one importance the oldest row comes first.
ByImportanceThenRecency_OldestFirst(a, b) ==
    \/ a.importance # Null /\ b.importance = Null
    \/ a.importance # Null /\ b.importance # Null /\ a.importance.v > b.importance.v
    \/ /\ a.importance = b.importance
       /\ TimeOf(a.created_at) < TimeOf(b.created_at)

\* .order('importance', {ascending: false, nullsFirst: false})
\* .order('created_at', {ascending: false})
ByImportanceThenRecency(a, b) ==
    \/ a.importance # Null /\ b.importance = Null
    \/ a.importance # Null /\ b.importance # Null /\ a.importance.v > b.importance.v
    \/ /\ a.importance = b.importance
       /\ TimeOf(a.created_at) > TimeOf(b.created_at)

\* .order('created_at', {ascending: false})
ByRecency(a, b) == TimeOf(a.created_at) > TimeOf(b.created_at)

Precedes(order, a, b) ==
    IF order = "importance,created_at" THEN ByImportanceThenRecency(a, b)
    ELSE ByRecency(a, b)

\* The rows in the requested order.  Two rows inserted at the same instant
\* would tie; the table of the model never holds two such rows.
RECURSIVE Ordered(_, _)
Ordered(rows, order) ==
    IF rows = {} THEN <<>>
    ELSE LET first == CHOOSE r \in rows :
                        \A o \in rows \ {r} : Precedes(order, r, o)
         IN <<first>> \o Ordered(rows \ {first}, order)

Min(a, b) == IF a < b THEN a ELSE b

\* .range(from, to): rows from..to of the ordered result, counted from 0
Window(s, from, to) == SubSeq(s, from + 1, Min(to + 1, Len(s)))

NoError == Null
PostgrestError(message) == [message |-> message]

Reply(data, error, count, rows) ==
    [data |-> data, error |-> error, count |-> count, rows |-> rows]

\* from('memories').insert(values).select('id').single(), at instant now
Insert(rows, values, now) ==
    LET row == [id |-> Str(FreshId(now)),
                user_id |-> values.user_id,
                session_id |-> values.session_id,
                type |-> values.type,
                content |-> values.content,
                tags |-> values.tags,
                importance |-> values.importance,
                created_at |-> Str(IsoOf(now)),
                updated_at |-> Str(IsoOf(now))]
    IN Reply([id |-> row.id], NoError, Null, rows \cup {row})

RangeMessage == "Requested range not satisfiable"

\* from('memories').select('*', ...) with filters, order and limit or range.
\* With {count: 'exact'} the store knows the number of matching rows and
\* rejects a range that starts beyond it.
Select(rows, request) ==
    LET hit == Matching(rows, request.filters)
        found == Ordered(hit, request.order)
    IN IF request.count = "exact" /\ request.from > Cardinality(hit)
       THEN Reply(Null, PostgrestError(RangeMessage), Null, rows)
       ELSE Reply(Window(found, request.from, request.to), NoError,
                  IF request.count = "exact" THEN Num(Cardinality(hit)) ELSE Null,
                  rows)

\* Mutant: the row is written whole, the columns the patch leaves out as
\* null.
Patched_WholeRow(row, patch) ==
    [c \in DOMAIN row |->
        IF c \in DOMAIN patch THEN patch[c]
        ELSE IF c \in {"content", "type", "tags", "importance"} THEN Null
        ELSE row[c]]

\* UPDATE ... SET: the columns of the patch are written, the others kept
Patched(row, patch) ==
    [c \in DOMAIN row |-> IF c \in DOMAIN patch THEN patch[c] ELSE row[c]]

SingleRowMessage == "JSON object requested, multiple (or no) rows returned"

\* from('memories').update(patch) with filters, .select('*').single(): the
\* object is returned when exactly one row was updated; with any other number
\* of rows the request fails and the transaction is rolled back.
Update(rows, request) ==
    LET hit == Matching(rows, request.filters)
    IN IF Cardinality(hit) = 1
       THEN LET row == CHOOSE r \in hit : TRUE
            IN Reply(Patched(row, request.patch), NoError, Null,
                     (rows \ hit) \cup {Patched(row, request.patch)})
       ELSE Reply(Null, PostgrestError(SingleRowMessage), Null, rows)

\* Mutant: the delete answers with the ids it matched and removes nothing.
Delete_KeepsRows(rows, request) ==
    LET hit == Matching(rows, request.filters)
    IN Reply({[id |-> r.id] : r \in hit}, NoError, Null, rows)

\* from('memories').delete() with filters, .select('id')
Delete(rows, request) ==
    LET hit == Matching(rows, request.filters)
    IN Reply({[id |-> r.id] : r \in hit}, NoError, Null, rows \ hit)

-----------------------------------------------------------------------------
(* src/lib/supabase.ts *)

SupabaseConfigError(message) == [class |-> "SupabaseConfigError", message |-> message]

MissingUrlMessage ==
    "Missing SUPABASE_URL environment variable. Please set it to your Supabase project URL."
MissingKeyMessage ==
    "Missing SUPABASE_ANON_KEY environment variable. Please set it to your Supabase anon/public key."

\* Mutant: the cached instance is ignored, every call constructs a client.
getSupabaseClient_Uncached(instance, environment) ==
    IF ~Truthy(environment.SUPABASE_URL)
    THEN [ok |-> FALSE, client |-> Null, error |-> SupabaseConfigError(MissingUrlMessage),
          instance |-> instance]
    ELSE IF ~Truthy(environment.SUPABASE_ANON_KEY)
    THEN [ok |-> FALSE, client |-> Null, error |-> SupabaseConfigError(MissingKeyMessage),
          instance |-> instance]
    ELSE LET created == [url |-> environment.SUPABASE_URL.v,
                         key |-> environment.SUPABASE_ANON_KEY.v]
         IN [ok |-> TRUE, client |-> created, error |-> NoFault, instance |-> created]

\* export function getSupabaseClient(): the client, or the error it throws,
\* and the value of supabaseInstance afterwards
getSupabaseClient(instance, environment) ==
    IF instance # Null
    THEN [ok |-> TRUE, client |-> instance, error |-> NoFault, instance |-> instance]
    ELSE IF ~Truthy(environment.SUPABASE_URL)
    THEN [ok |-> FALSE, client |-> Null, error |-> SupabaseConfigError(MissingUrlMessage),
          instance |-> instance]
    ELSE IF ~Truthy(environment.SUPABASE_ANON_KEY)
    THEN [ok |-> FALSE, client |-> Null, error |-> SupabaseConfigError(MissingKeyMessage),
          instance |-> instance]
    ELSE LET created == [url |-> environment.SUPABASE_URL.v,
                         key |-> environment.SUPABASE_ANON_KEY.v]
         IN [ok |-> TRUE, client |-> created, error |-> NoFault, instance |-> created]

-----------------------------------------------------------------------------
(* src/tools/memory.ts.  A handler is applied to its arguments in a context *)
(* ctx: the table rows, supabaseInstance, process.env, the instant of the   *)
(* call and the fate of the request it sends ("ok": the store executes it;  *)
(* "error": the store answers with an error descriptor; "throw": the await  *)
(* rejects).  It yields its outcome (a returned Tool Result or a thrown     *)
(* error), the requests it sent, and the rows and supabaseInstance after.   *)

\* Mutant: the error result carries the bare message.
createErrorResult_Plain(message) == ToolError(Text(message))

\* function createErrorResult(message): JSON.stringify({error: message})
createErrorResult(message) == ToolError(JsonText(Obj([error |-> Str(message)])))

RECURSIVE JoinMessages(_)
JoinMessages(messages) ==
    IF messages = <<>> THEN ""
    ELSE messages[1] \o (IF Len(messages) > 1 THEN ", " ELSE "")
         \o JoinMessages(Tail(messages))

toMemoryOutput(record) ==
    Obj([id |-> record.id,
         userId |-> record.user_id,
         sessionId |-> record.session_id,
         type |-> record.type,
         content |-> record.content,
         tags |-> record.tags,
         importance |-> record.importance,
         createdAt |-> record.created_at,
         updatedAt |-> record.updated_at])

Done(outcome, sent, rows, instance) ==
    [outcome |-> outcome, sent |-> sent, rows |-> rows, instance |-> instance]

\* throw new InvalidParamsError(parsed.error.issues.map(i => i.message).join(', '))
Rejected(parsed, tool, ctx) ==
    Done(Thrown(InvalidParamsError(JoinMessages(parsed.messages)), tool),
         <<>>, ctx.rows, ctx.instance)

\* Mutant: the handler has no catch; what is thrown inside it escapes.
Caught_Rethrown(err, doing, tool) == Thrown(err, tool)

\* catch (err) { ... } of a memory handler
Caught(err, doing, tool) ==
    IF err.class = "SupabaseConfigError"
    THEN Returned(createErrorResult(err.message), tool)
    ELSE Returned(createErrorResult("An unexpected error occurred while " \o doing), tool)

Execute(rows, request, now) ==
    CASE request.verb = "insert" -> Insert(rows, request.values, now)
      [] request.verb = "select" -> Select(rows, request)
      [] request.verb = "update" -> Update(rows, request)
      [] request.verb = "delete" -> Delete(rows, request)

StoreFailure == PostgrestError("upstream request failed")
FetchFailure == RuntimeError("TypeError", "fetch failed")

\* Mutant: a request the store answered with an error is sent a second time.
Attempt_Retry(request, ctx) ==
    LET got == getSupabaseClient(ctx.instance, ctx.env)
    IN IF ~got.ok
       THEN [thrown |-> got.error, reply |-> Null, sent |-> <<>>,
             rows |-> ctx.rows, instance |-> got.instance]
       ELSE IF ctx.fate = "throw"
       THEN [thrown |-> FetchFailure, reply |-> Null, sent |-> <<request>>,
             rows |-> ctx.rows, instance |-> got.instance]
       ELSE IF ctx.fate = "error"
       THEN [thrown |-> NoFault, reply |-> Reply(Null, StoreFailure, Null, ctx.rows),
             sent |-> <<request, request>>,
             rows |-> ctx.rows, instance |-> got.instance]
       ELSE LET reply == Execute(ctx.rows, request, ctx.now)
            IN [thrown |-> NoFault, reply |-> reply, sent |-> <<request>>,
                rows |-> reply.rows, instance |-> got.instance]

\* The body of the try block up to the destructured answer of the store:
\* getSupabaseClient(), then the awaited request.
Attempt(request, ctx) ==
    LET got == getSupabaseClient(ctx.instance, ctx.env)
    IN IF ~got.ok
       THEN [thrown |-> got.error, reply |-> Null, sent |-> <<>>,
             rows |-> ctx.rows, instance |-> got.instance]
       ELSE IF ctx.fate = "throw"
       THEN [thrown |-> FetchFailure, reply |-> Null, sent |-> <<request>>,
             rows |-> ctx.rows, instance |-> got.instance]
       ELSE LET reply == IF ctx.fate = "error"
                         THEN Reply(Null, StoreFailure, Null, ctx.rows)
                         ELSE Execute(ctx.rows, request, ctx.now)
            IN [thrown |-> NoFault, reply |-> reply, sent |-> <<request>>,
                rows |-> reply.rows, instance |-> got.instance]

\* The rest of the handler: the catch, the error branch, or the result.
Conclude(attempt, tool, failed, doing, result) ==
    Done(IF attempt.thrown # NoFault THEN Caught(attempt.thrown, doing, tool)
         ELSE IF attempt.reply.error # NoError
         THEN Returned(createErrorResult(failed \o attempt.reply.error.message), tool)
         ELSE Returned(result, tool),
         attempt.sent, attempt.rows, attempt.instance)

Json(fields) == ToolResult(JsonText(Obj(fields)))

memorySave(args, ctx) ==
    LET parsed == MemorySaveInputSchema(args)
        data == parsed.data
        request == [verb |-> "insert",
                    values |-> [user_id |-> data.userId,
                                content |-> data.content,
                                type |-> data.type,
                                tags |-> IF Truthy(data.tags) THEN data.tags ELSE Arr(<<>>),
                                importance |-> data.importance,
                                session_id |-> IF Truthy(data.sessionId)
                                               THEN data.sessionId ELSE Null],
                    select |-> "id", single |-> TRUE]
        attempt == Attempt(request, ctx)
    IN IF ~parsed.success THEN Rejected(parsed, "memorySave", ctx)
       ELSE Conclude(attempt, "memorySave", "Failed to save memory: ", "saving memory",
                     Json([id |-> attempt.reply.data.id, saved |-> Bool(TRUE)]))

OptionalEq(column, x) == IF Truthy(x) THEN <<Eq(column, x.v)>> ELSE <<>>

Outputs(rows) == Arr([i \in DOMAIN rows |-> toMemoryOutput(rows[i])])

memorySearch(args, ctx) ==
    LET parsed == MemorySearchInputSchema(args)
        data == parsed.data
        request == [verb |-> "select",
                    filters |-> <<Eq("user_id", data.userId.v),
                                  ILike("content", "%" \o data.query.v \o "%")>>
                                \o OptionalEq("type", data.type)
                                \o OptionalEq("session_id", data.sessionId),
                    order |-> "importance,created_at",
                    from |-> 0, to |-> data.limit.v - 1,
                    select |-> "*", count |-> "", single |-> FALSE]
        attempt == Attempt(request, ctx)
    IN IF ~parsed.success THEN Rejected(parsed, "memorySearch", ctx)
       ELSE Conclude(attempt, "memorySearch", "Failed to search memories: ",
                     "searching memories",
                     Json([memories |-> Outputs(attempt.reply.data)]))

\* .eq('user_id', userId), then .eq('id', id) or .ilike('content', ...)
ForgetFilters(data) ==
    <<Eq("user_id", data.userId.v)>>
    \o (IF Truthy(data.id) THEN <<Eq("id", data.id.v)>>
        ELSE IF Truthy(data.contentMatch)
        THEN <<ILike("content", "%" \o data.contentMatch.v \o "%")>>
        ELSE <<>>)

memoryForget(args, ctx) ==
    LET parsed == MemoryForgetInputSchema(args)
        data == parsed.data
        request == [verb |-> "delete", filters |-> ForgetFilters(data),
                    select |-> "id", single |-> FALSE]
        attempt == Attempt(request, ctx)
    IN IF ~parsed.success THEN Rejected(parsed, "memoryForget", ctx)
       ELSE Conclude(attempt, "memoryForget", "Failed to delete memories: ",
                     "deleting memories",
                     Json([deletedCount |-> Num(Cardinality(attempt.reply.data))]))

memoryList(args, ctx) ==
    LET parsed == MemoryListInputSchema(args)
        data == parsed.data
        request == [verb |-> "select",
                    filters |-> <<Eq("user_id", data.userId.v)>>
                                \o OptionalEq("type", data.type),
                    order |-> "created_at",
                    from |-> data.offset.v, to |-> data.offset.v + data.limit.v - 1,
                    select |-> "*", count |-> "exact", single |-> FALSE]
        attempt == Attempt(request, ctx)
    IN IF ~parsed.success THEN Rejected(parsed, "memoryList", ctx)
       ELSE Conclude(attempt, "memoryList", "Failed to list memories: ",
                     "listing memories",
                     Json([memories |-> Outputs(attempt.reply.data),
                           total |-> IF Truthy(attempt.reply.count)
                                     THEN attempt.reply.count ELSE Num(0)]))

UpdatableFields == {"content", "type", "tags", "importance"}

\* Mutant: every updatable column is written, the absent ones as null.
updateData_AllFields(data, now) ==
    [c \in UpdatableFields \cup {"updated_at"} |->
        IF c = "updated_at" THEN Str(IsoOf(now))
        ELSE IF data[c] = Undefined THEN Null ELSE data[c]]

\* const updateData = { updated_at: new Date().toISOString() }, then one
\* assignment per supplied field
updateData(data, now) ==
    [c \in {k \in UpdatableFields : data[k] # Undefined} \cup {"updated_at"} |->
        IF c = "updated_at" THEN Str(IsoOf(now)) ELSE data[c]]

\* Mutant: the update is filtered by id only.
UpdateFilters_IdOnly(data) == <<Eq("id", data.id.v)>>

\* .eq('user_id', userId).eq('id', id)
UpdateFilters(data) == <<Eq("user_id", data.userId.v), Eq("id", data.id.v)>>

memoryUpdate(args, ctx) ==
    LET parsed == MemoryUpdateInputSchema(args)
        data == parsed.data
        request == [verb |-> "update", patch |-> updateData(data, ctx.now),
                    filters |-> UpdateFilters(data),
                    select |-> "*", single |-> TRUE]
        attempt == Attempt(request, ctx)
    IN IF ~parsed.success THEN Rejected(parsed, "memoryUpdate", ctx)
       ELSE Conclude(attempt, "memoryUpdate", "Failed to update memory: ",
                     "updating memory",
                     IF attempt.reply.data = Null
                     THEN createErrorResult("Memory not found or not owned by user")
                     ELSE Json([memory |-> toMemoryOutput(attempt.reply.data),
                                updated |-> Bool(TRUE)]))

\* export async function executeMemoryTool(name, args)
executeMemoryTool(name, args, ctx) ==
    CASE name = "memory_save"   -> memorySave(args, ctx)
      [] name = "memory_search" -> memorySearch(args, ctx)
      [] name = "memory_forget" -> memoryForget(args, ctx)
      [] name = "memory_list"   -> memoryList(args, ctx)
      [] name = "memory_update" -> memoryUpdate(args, ctx)
      [] OTHER -> Done(Returned(Null, ""), <<>>, ctx.rows, ctx.instance)

\* process.env with both variables set, and no handler call in progress
Configured == [SUPABASE_URL |-> Str("https://project.supabase.co"),
               SUPABASE_ANON_KEY |-> Str("anon-key")]
NoCall == [tool |-> ""]

-----------------------------------------------------------------------------
(* The requests the model sends *)

HttpMethods == {"POST", "OPTIONS", "GET", "DELETE"}

JsonrpcValues == {Undefined, Str("2.0"), Str("1.0"), Num(2)}
IdValues == {Undefined, Null, Str("abc"), Str("1"), Str(""), Num(1), Num(0),
             Bool(TRUE), Obj(EmptyFields)}
RequestIds == {x \in IdValues : x.t \in {"string", "number"}}
MethodValues == {Undefined, Str(INITIALIZE), Str(TOOLS_LIST), Str(TOOLS_CALL), Str(PING),
                 Str("foo/bar"), Str("notifications/initialized"), Str(""), Num(5)}

UtilityTools == {"echo", "get_current_time", "calculate", "generate_uuid", "text_stats"}
MemoryTools == {"memory_save", "memory_search", "memory_forget", "memory_list",
                "memory_update"}

RECURSIVE Doubled(_, _)
Doubled(s, n) == IF n = 0 THEN s ELSE Doubled(s \o s, n - 1)

\* A text of 65536 characters: beyond the maximum length of echo and text_stats.
LongText == Doubled("a", 16)

Operands == (0 - MaxNum)..MaxNum

TextArgs ==
    {MkObj([text |-> x]) :
        x \in {Str(""), Str("hi"), Str("Hello world. This is a test."), Str("42"),
               Str(" \n"), Str(LongText), Num(7), Null}}

CalculateArgs ==
    {MkObj([operation |-> Str(op), a |-> Num(a), b |-> Num(b)]) :
        op \in Operations \cup {"modulo"}, a \in Operands, b \in Operands}
    \cup {MkObj([operation |-> Str("divide"), a |-> x, b |-> Num(0)]) :
            x \in {Undefined, Str("1")}}
    \cup {MkObj([operation |-> Num(1), a |-> Num(1), b |-> Str("0")])}

\* Arguments of the memory tools: one that satisfies memory_save's schema
\* and some that violate every memory schema.
MemoryArgs ==
    {MkObj([userId |-> Str("u1"), content |-> Str("likes tea")]),
     MkObj([userId |-> Str(""), content |-> Str("likes tea")]),
     MkObj([userId |-> Num(1)]),
     MkObj([content |-> Str("likes tea")])}

ArgumentsValues ==
    {Undefined, Null, Obj(EmptyFields), Str("text"), Num(3), Arr(<<>>)}
    \cup TextArgs \cup CalculateArgs \cup MemoryArgs

NameValues ==
    {Undefined, Num(1), Null, Str(""), Str("nonexistent_tool")}
    \cup {Str(n) : n \in UtilityTools \cup MemoryTools}

CallParams == {MkObj([name |-> n, arguments |-> a]) : n \in NameValues, a \in ArgumentsValues}

\* Every envelope shape with a few params, and every tools/call params under
\* a well-formed envelope.
FewParams == {Undefined, Null, Str("p"), Arr(<<>>), Obj(EmptyFields),
              MkObj([name |-> Str("echo"), arguments |-> MkObj([text |-> Str("hi")])])}

JsonBodies ==
    {MkObj([jsonrpc |-> j, id |-> i, method |-> m, params |-> p]) :
        j \in JsonrpcValues, i \in IdValues, m \in MethodValues, p \in FewParams}
    \cup {MkObj([jsonrpc |-> Str("2.0"), id |-> i, method |-> Str(TOOLS_CALL), params |-> p]) :
            i \in {Undefined, Null} \cup RequestIds, p \in CallParams}
    \cup {Null, Num(5), Str("initialize"), Arr(<<>>), Bool(TRUE)}

MalformedTexts == {Text("{bad"), Text("not json"), Text("{\"jsonrpc\": \"2.0\", "), Text(" ")}

Bodies ==
    {Null, Text(""), Text("{}"), Text("[]"), Text("null"), Text("12")}
    \cup MalformedTexts \cup {JsonText(v) : v \in JsonBodies}

Events == [httpMethod : HttpMethods, body : Bodies]

\* new Date(): the clock reading, as epoch milliseconds and as ISO text
Instants == {[ms |-> m, iso |-> "1970-01-01T00:00:00.00" \o Hex(m) \o "Z"] : m \in 0..MaxClock}

\* The draws of Math.random() made by one generateUuid call, per template position
Draws == {[i \in 1..Len(UuidTemplate) |-> 0], [i \in 1..Len(UuidTemplate) |-> 15],
          [i \in 1..Len(UuidTemplate) |-> (7 * i) % 16]}

-----------------------------------------------------------------------------
(* The state machine: the runtime invokes the handler once per request *)

Range(s) == {s[i] : i \in DOMAIN s}

NoEvent == [httpMethod |-> "", body |-> Null]
NoResponse == [statusCode |-> 0, body |-> EmptyBody]

\* The process has started: the table is empty, no client has been created.
Start ==
    /\ store = {}
    /\ clock = 0
    /\ supabaseInstance = Null
    /\ memcall = NoCall
    /\ justSaved = Null
    /\ justForgot = Null

Init ==
    /\ pc = "idle"
    /\ event = NoEvent
    /\ response = NoResponse
    /\ ran = <<>>
    /\ listed = Undefined
    /\ thrown = NoFault /\ initialized = FALSE
    /\ Start
    /\ env = Configured

\* The runtime receives an HTTP request for the function.
Receive ==
    /\ pc = "idle"
    /\ \E ev \in Events : event' = ev
    /\ pc' = "received"
    /\ UNCHANGED <<response, ran, listed, thrown, initialized, memvars>>

\* The handler runs on the event, from its first line to its return; the tool
\* function it reaches, if any, raises fault unless fault is NoFault.
Run(fault) ==
    /\ pc = "received"
    /\ \E now \in Instants, rnd \in Draws :
          \E r \in {handler(event, now, rnd, fault)} :
             /\ thrown' = IF "executeTool" \in Range(r.ran) THEN fault ELSE NoFault
             /\ response' = [statusCode |-> r.statusCode, body |-> r.body]
             /\ ran' = r.ran
             /\ listed' = IF listed = Undefined
                           THEN IF "handleToolsList" \in Range(r.ran)
                                THEN [tools |-> r.body.v.v.result.v.tools, called |-> FALSE]
                                ELSE listed
                           ELSE [listed EXCEPT !.called = @ \/ "executeTool" \in Range(r.ran)]
    /\ pc' = "responded"
    /\ UNCHANGED <<event, memvars>>

Handle == Run(NoFault) /\ UNCHANGED initialized

\* The runtime sends the response; the invocation is over.
Complete ==
    /\ pc = "responded"
    /\ pc' = "idle"
    /\ event' = NoEvent
    /\ response' = NoResponse
    /\ ran' = <<>>
    /\ thrown' = NoFault
    /\ UNCHANGED <<listed, initialized, memvars>>

Next == Receive \/ Handle \/ Complete

Spec == Init /\ [][Next]_vars

\* The same endpoint when the runtime can fail inside a tool function (stack or
\* memory exhaustion): none of the five utility tools has a throw of its own,
\* so this is the only way the catch of handleToolsCall is entered.
Faults == {RuntimeError("RangeError", "Maximum call stack size exceeded"),
           RuntimeError("Error", "out of memory")}

HandleFaulty == (\E fault \in Faults : Run(fault)) /\ UNCHANGED initialized

FaultNext == Receive \/ Handle \/ HandleFaulty \/ Complete

FaultSpec == Init /\ [][FaultNext]_vars

\* The same handler, with the history of the process kept: whether
\* handleInitialize ran in this or an earlier invocation.
HandleInSession ==
    /\ Run(NoFault)
    /\ initialized' = (initialized \/ "handleInitialize" \in Range(ran'))

SessionNext == Receive \/ HandleInSession \/ Complete

SessionSpec == Init /\ [][SessionNext]_vars

-----------------------------------------------------------------------------
(* The memory tools called directly, one call at a time, against one table  *)

MaxTime == 3        \* requests that change the table in one behaviour
MaxRecords == 2     \* rows the table holds at once

Users == {"u1", "u2"}

Environments ==
    {Configured,
     [Configured EXCEPT !.SUPABASE_URL = Undefined],
     [Configured EXCEPT !.SUPABASE_URL = Str("")],
     [Configured EXCEPT !.SUPABASE_ANON_KEY = Undefined]}

Fates == {"ok", "error", "throw"}

\* Two kinds of memory are saved: a bare one (defaults everywhere) and a
\* full one (every optional field given, importance 5).
SaveArgs ==
    {MkObj([userId |-> Str(u), content |-> Str("Tea")]) : u \in Users}
    \cup {MkObj([userId |-> Str(u), content |-> Str("a\\t"), type |-> Str("task"),
                 tags |-> Arr(<<Str("x")>>), importance |-> Num(5),
                 sessionId |-> Str("s1")]) : u \in Users}
    \cup {MkObj([userId |-> Str(""), content |-> Str("Tea")]),
          MkObj([userId |-> Str("u1")]),
          MkObj([userId |-> Str("u1"), content |-> Str("Tea"), importance |-> Num(11)]),
          Null}

SearchArgs ==
    {MkObj([userId |-> Str(u), query |-> Str(q), limit |-> l]) :
        u \in Users, q \in {"ea", "T", "\\"}, l \in {Undefined, Num(1)}}
    \cup {MkObj([userId |-> Str("u1"), query |-> Str("t"), type |-> Str("task")]),
          MkObj([userId |-> Str("u1"), query |-> Str("")]),
          MkObj([userId |-> Str("u1"), query |-> Str("t"), limit |-> Num(0)])}

ForgetArgs ==
    {MkObj([userId |-> Str(u), id |-> t.id, contentMatch |-> t.contentMatch]) :
        u \in Users,
        t \in {[id |-> Str(FreshId(1)), contentMatch |-> Undefined],
               [id |-> Str(FreshId(2)), contentMatch |-> Str("EA")],
               [id |-> Str(""), contentMatch |-> Str("t")],
               [id |-> Undefined, contentMatch |-> Str("EA")],
               [id |-> Undefined, contentMatch |-> Str("%")],
               [id |-> Undefined, contentMatch |-> Undefined],
               [id |-> Str(""), contentMatch |-> Str("")]}}
    \cup {MkObj([userId |-> Str(""), id |-> Str(FreshId(1))]),
          MkObj([userId |-> Str("u1"), id |-> Undefined, contentMatch |-> Str("")])}

ListArgs ==
    {MkObj([userId |-> Str(u), limit |-> l, offset |-> o]) :
        u \in Users, l \in {Undefined, Num(1)}, o \in {Undefined, Num(1)}}
    \cup {MkObj([userId |-> Str("u1"), type |-> Str("task")]),
          MkObj([userId |-> Str("u1"), offset |-> Num(-1)])}

UpdateArgs ==
    {MkObj([userId |-> Str(u), id |-> Str(i), content |-> p.content, type |-> p.type,
            tags |-> p.tags, importance |-> p.importance]) :
        u \in Users, i \in {FreshId(1), FreshId(9)},
        p \in {[content |-> Undefined, type |-> Undefined, tags |-> Undefined,
                importance |-> Undefined],
               [content |-> Str("Eat"), type |-> Undefined, tags |-> Undefined,
                importance |-> Undefined],
               [content |-> Undefined, type |-> Undefined, tags |-> Undefined,
                importance |-> Num(3)],
               [content |-> Undefined, type |-> Str("fact"), tags |-> Arr(<<>>),
                importance |-> Undefined]}}
    \cup {MkObj([userId |-> Str("u1"), id |-> Str("")]),
          MkObj([userId |-> Str("u1"), id |-> Str(FreshId(1)), importance |-> Num(11)])}

MemInit ==
    /\ pc = "idle" /\ event = NoEvent /\ response = NoResponse /\ ran = <<>>
    /\ listed = Undefined /\ thrown = NoFault /\ initialized = FALSE
    /\ Start
    /\ env \in Environments

\* One call of a memory handler, from its first line to the value it returns
\* or the error it throws.  A request that changes the table happens at the
\* next instant of the clock.
Call(tool, arguments) ==
    /\ memcall = NoCall
    /\ \E args \in arguments, fate \in Fates :
          \E done \in {executeMemoryTool(tool, args,
                            [rows |-> store, instance |-> supabaseInstance,
                             env |-> env, now |-> clock + 1, fate |-> fate])} :
             /\ Cardinality(done.rows) <= MaxRecords
             /\ done.rows # store => clock < MaxTime
             /\ memcall' = [tool |-> tool, args |-> args, fate |-> fate,
                         outcome |-> done.outcome, sent |-> done.sent,
                         before |-> store]
             /\ store' = done.rows
             /\ supabaseInstance' = done.instance
             /\ clock' = IF done.rows # store THEN clock + 1 ELSE clock
    /\ UNCHANGED <<env, justSaved, justForgot, httpvars>>

MemorySave == Call("memory_save", SaveArgs)
MemorySearch == Call("memory_search", SearchArgs)
MemoryForget == Call("memory_forget", ForgetArgs)
MemoryList == Call("memory_list", ListArgs)
MemoryUpdate == Call("memory_update", UpdateArgs)

Succeeded(c) ==
    /\ c.outcome.kind = "return"
    /\ "isError" \notin DOMAIN c.outcome.value.v

\* The caller has the answer; the next call may start.  justSaved keeps the
\* id of the record the call saved, if it was a successful memory_save.
Return ==
    /\ memcall # NoCall
    /\ justSaved' = IF memcall.tool = "memory_save" /\ Succeeded(memcall)
                    THEN memcall.outcome.value.v.content.v[1].text.v.v.id
                    ELSE Null
    /\ justForgot' = IF /\ memcall.tool = "memory_forget" /\ Succeeded(memcall)
                        /\ Truthy(Get(memcall.args, "id"))
                     THEN [userId |-> Get(memcall.args, "userId"),
                           id |-> Get(memcall.args, "id"),
                           deletedCount |->
                               memcall.outcome.value.v.content.v[1].text.v.v.deletedCount]
                     ELSE Null
    /\ memcall' = NoCall
    /\ UNCHANGED <<store, clock, supabaseInstance, env, httpvars>>

MemNext ==
    MemorySave \/ MemorySearch \/ MemoryForget \/ MemoryList \/ MemoryUpdate \/ Return

MemSpec == MemInit /\ [][MemNext]_vars

\* getSupabaseClient called again and again by the handlers of one process
\* while process.env changes between the calls; resetSupabaseClient is not
\* called.  The call record keeps the instance and the configuration the
\* call found and every client returned so far.
ClientEnvironments ==
    [SUPABASE_URL : {Undefined, Str(""), Str("https://project.supabase.co"),
                     Str("https://other.supabase.co")},
     SUPABASE_ANON_KEY : {Undefined, Str("anon-key"), Str("other-key")}]

ClientInit ==
    /\ pc = "idle" /\ event = NoEvent /\ response = NoResponse /\ ran = <<>>
    /\ listed = Undefined /\ thrown = NoFault /\ initialized = FALSE
    /\ Start
    /\ env \in ClientEnvironments

GetClient ==
    /\ \E got \in {getSupabaseClient(supabaseInstance, env)} :
          /\ memcall' = [tool |-> "getSupabaseClient",
                         before |-> supabaseInstance, config |-> env,
                         outcome |-> IF got.ok
                                     THEN Returned(got.client, "getSupabaseClient")
                                     ELSE Thrown(got.error, "getSupabaseClient"),
                         returned |-> (IF memcall = NoCall THEN {} ELSE memcall.returned)
                                      \cup (IF got.ok THEN {got.client} ELSE {})]
          /\ supabaseInstance' = got.instance
    /\ UNCHANGED <<store, clock, env, justSaved, justForgot, httpvars>>

SetEnv ==
    /\ \E e \in ClientEnvironments \ {env} : env' = e
    /\ UNCHANGED <<store, clock, supabaseInstance, memcall, justSaved, justForgot, httpvars>>

ClientNext == GetClient \/ SetEnv

ClientSpec == ClientInit /\ [][ClientNext]_vars

\* Two memory_update calls of one process in flight at once on the record
\* m1 of u1.  A handler runs without interruption up to its await: it
\* validates, gets the client and builds the request with its own
\* new Date(); the store executes the requests one at a time, in either
\* order; then the handler resumes with the answer.
Callers == {1, 2}

RaceRows ==
    Insert({}, [user_id |-> Str("u1"), session_id |-> Null, type |-> Str("note"),
                content |-> Str("Tea"), tags |-> Arr(<<>>), importance |-> Num(0)],
           1).rows

RaceArgs ==
    {MkObj([userId |-> Str("u1"), id |-> Str(FreshId(1)), content |-> p.content,
            type |-> p.type, tags |-> p.tags, importance |-> p.importance]) :
        p \in {[content |-> Str("Eat"), type |-> Undefined, tags |-> Undefined,
                importance |-> Undefined],
               [content |-> Str("Oat"), type |-> Undefined, tags |-> Undefined,
                importance |-> Num(5)],
               [content |-> Undefined, type |-> Undefined, tags |-> Undefined,
                importance |-> Num(3)],
               [content |-> Undefined, type |-> Str("fact"), tags |-> Arr(<<Str("x")>>),
                importance |-> Undefined],
               [content |-> Undefined, type |-> Undefined, tags |-> Undefined,
                importance |-> Undefined]}}

RaceInit ==
    /\ pc = "idle" /\ event = NoEvent /\ response = NoResponse /\ ran = <<>>
    /\ listed = Undefined /\ thrown = NoFault /\ initialized = FALSE
    /\ store = RaceRows
    /\ clock = 1
    /\ supabaseInstance = Null
    /\ env = Configured
    /\ justSaved = Null /\ justForgot = Null
    /\ memcall = [tool |-> "memory_update", calls |-> [c \in Callers |-> [stage |-> "idle"]]]

\* memoryUpdate up to its await: the request is built and sent.
UpdateBegins(c) ==
    /\ memcall.calls[c].stage = "idle"
    /\ \E args \in RaceArgs :
          memcall' = [memcall EXCEPT !.calls[c] =
                        [stage |-> "sent", args |-> args, now |-> clock + 1]]
    /\ clock' = clock + 1
    /\ supabaseInstance' = getSupabaseClient(supabaseInstance, env).instance
    /\ UNCHANGED <<store, env, justSaved, justForgot, httpvars>>

\* The store executes the request of c on the rows it holds now, and the
\* handler of c returns its result.
UpdateCompletes(c) ==
    /\ memcall.calls[c].stage = "sent"
    /\ \E done \in {memoryUpdate(memcall.calls[c].args,
                          [rows |-> store, instance |-> supabaseInstance, env |-> env,
                           now |-> memcall.calls[c].now, fate |-> "ok"])} :
          /\ memcall' = [memcall EXCEPT !.calls[c] =
                           [stage |-> "done", args |-> memcall.calls[c].args,
                            now |-> memcall.calls[c].now, outcome |-> done.outcome]]
          /\ store' = done.rows
    /\ UNCHANGED <<clock, supabaseInstance, env, justSaved, justForgot, httpvars>>

RaceNext == \E c \in Callers : UpdateBegins(c) \/ UpdateCompletes(c)

RaceSpec == RaceInit /\ [][RaceNext]_vars

\* One call of a tool function, a utility tool through executeTool or a
\* memory tool through its handler, by a process that has just started and
\* finds the table empty or holding one or two records saved earlier.
ToolNames == UtilityTools \cup {"nonexistent_tool"}

ToolArgs ==
    {Undefined,
     MkObj([text |-> Str("hi")]), MkObj([text |-> Str("42")]), MkObj([text |-> Str("")]),
     MkObj([operation |-> Str("add"), a |-> Num(1), b |-> Num(1)]),
     MkObj([operation |-> Str("divide"), a |-> Num(1), b |-> Num(0)])}

ToolTables ==
    {{}, RaceRows,
     Insert(RaceRows, [user_id |-> Str("u1"), session_id |-> Str("s1"),
                       type |-> Str("task"), content |-> Str("a\\t"),
                       tags |-> Arr(<<Str("x")>>), importance |-> Num(5)], 2).rows}

ToolInit ==
    /\ pc = "idle" /\ event = NoEvent /\ response = NoResponse /\ ran = <<>>
    /\ listed = Undefined /\ thrown = NoFault /\ initialized = FALSE
    /\ store \in ToolTables
    /\ clock = Cardinality(store)
    /\ supabaseInstance = Null
    /\ env \in Environments
    /\ justSaved = Null /\ justForgot = Null
    /\ memcall = NoCall

ExecuteTool ==
    /\ memcall = NoCall
    /\ \E name \in ToolNames, args \in ToolArgs, now \in Instants, rnd \in Draws :
          memcall' = [tool |-> name, args |-> args, fate |-> "ok",
                      outcome |-> executeTool(name, args, now, rnd),
                      sent |-> <<>>, before |-> store]
    /\ UNCHANGED <<store, clock, supabaseInstance, env, justSaved, justForgot, httpvars>>

ToolNext ==
    \/ ExecuteTool
    \/ MemorySave \/ MemorySearch \/ MemoryForget \/ MemoryList \/ MemoryUpdate

ToolSpec == ToolInit /\ [][ToolNext]_vars

-----------------------------------------------------------------------------
(* Vocabulary of the properties.  The request is described as the client   *)
(* sent it, by the shape of its JSON text, not by what the handler made of *)
(* it.                                                                     *)

Responded == pc = "responded"
Post == event.httpMethod = "POST"

Has(o, k) == k \in DOMAIN o.v

SentJson == event.body # Null /\ event.body.enc = "json"
Sent == event.body.v

\* The JSON-RPC 2.0 request shape of the data model.
WellFormed(v) ==
    /\ v.t = "object"
    /\ Has(v, "jsonrpc") /\ v.v.jsonrpc = Str("2.0")
    /\ Has(v, "id") => v.v.id.t \in {"string", "number", "null"}
    /\ Has(v, "method") /\ v.v.method.t = "string"
    /\ Has(v, "params") => v.v.params.t = "object"

ValidRequest == Responded /\ Post /\ SentJson /\ WellFormed(Sent)
RequestWithId == ValidRequest /\ Has(Sent, "id") /\ Sent.v.id.t \in {"string", "number"}
Notification == ValidRequest /\ (~Has(Sent, "id") \/ Sent.v.id = Null)

HasEnvelope == response.body.enc = "json"
Envelope == response.body.v
EnvHas(k) == HasEnvelope /\ Has(Envelope, k)
ErrorCode == Envelope.v.error.v.code.v

RanSet == {ran[i] : i \in DOMAIN ran}
MethodHandlers == {"handleInitialize", "handleToolsList", "handleToolsCall", "handlePing"}
ToolFunctions == {"executeTool", "echo", "getCurrentTime", "calculate", "generateUuid",
                  "textStats"}

-----------------------------------------------------------------------------
\* C1: a valid JSON-RPC request with a string or number id, whatever its
\* method and params, is answered by an envelope whose id equals the
\* request's id in type and value and that holds exactly one of result and
\* error.
C1_IdEchoedOneOfResultError ==
    RequestWithId =>
        /\ HasEnvelope
        /\ EnvHas("id") /\ Envelope.v.id = Sent.v.id
        /\ EnvHas("result") # EnvHas("error")

\* An error answer to a request whose id is the number 0.
C1_Witness ==
    /\ RequestWithId
    /\ Sent.v.id = Num(0)
    /\ EnvHas("error") /\ ~EnvHas("result")

\* C2: a valid request whose id is absent or null gets no response body;
\* whatever its method, no method handler and no tool runs and no envelope
\* is returned.
C2_NotificationNeverRouted ==
    Notification =>
        /\ response.body = EmptyBody
        /\ ~HasEnvelope
        /\ RanSet \cap (MethodHandlers \cup ToolFunctions) = {}

\* A tools/call on echo sent with id null, acknowledged with 204.
C2_Witness ==
    /\ Notification
    /\ Has(Sent, "id") /\ Sent.v.method = Str(TOOLS_CALL)
    /\ Has(Sent, "params") /\ Get(Sent.v.params, "name") = Str("echo")
    /\ response.statusCode = 204

-----------------------------------------------------------------------------
(* tools/call *)

ToolCall == RequestWithId /\ Sent.v.method = Str(TOOLS_CALL)
SentParams == Get(Sent, "params")
SentName == IF Has(Sent, "params") THEN Get(SentParams, "name") ELSE Undefined
SentArguments == IF Has(Sent, "params") THEN Get(SentParams, "arguments") ELSE Undefined
CallOf(tools) == ToolCall /\ SentName.t = "string" /\ SentName.v \in tools

RegisteredTools == {toolDefinitions[i].name : i \in DOMAIN toolDefinitions}

IsTextOf(a, k, lo, hi) ==
    /\ a.t = "object" /\ Has(a, k)
    /\ a.v[k].t = "string" /\ Len(a.v[k].v) >= lo /\ Len(a.v[k].v) <= hi

IsNumberOf(a, k) == a.t = "object" /\ Has(a, k) /\ a.v[k].t = "number"

\* The documented input contract of each utility tool.
SatisfiesSchema(tool, a) ==
    CASE tool = "echo"       -> IsTextOf(a, "text", 1, 10000)
      [] tool = "text_stats" -> IsTextOf(a, "text", 1, 50000)
      [] tool = "calculate"  ->
            /\ a.t = "object" /\ Has(a, "operation")
            /\ a.v.operation \in {Str("add"), Str("subtract"), Str("multiply"), Str("divide")}
            /\ IsNumberOf(a, "a") /\ IsNumberOf(a, "b")
      [] OTHER -> a.t \in {"undefined", "object"}   \* an object with no properties required

DivideByZero(a) ==
    /\ SatisfiesSchema("calculate", a)
    /\ a.v.operation = Str("divide") /\ a.v.b = Num(0)

SuccessEnvelope == response.statusCode = 200 /\ EnvHas("result") /\ ~EnvHas("error")
Result == Envelope.v.result
ResultText == Result.v.content.v[1].text
IsErrorResult == Has(Result, "isError") /\ Result.v.isError = Bool(TRUE)

StartsWith(s, prefix) == Len(s) >= Len(prefix) /\ SubSeq(s, 1, Len(prefix)) = prefix

InBandError(prefix) ==
    /\ SuccessEnvelope /\ IsErrorResult
    /\ ResultText.enc = "plain"
    /\ StartsWith(ResultText.s, prefix)

ToolsWithInput == {"echo", "calculate", "text_stats"}

\* C3 (as stated): a tools/call on any of the five utility tools never yields
\* an error envelope; arguments that violate the tool's schema, and a
\* calculate divide by zero, give a success envelope whose result has
\* isError true.
C3_AsStated ==
    CallOf(UtilityTools) =>
        /\ SuccessEnvelope
        /\ ~SatisfiesSchema(SentName.v, SentArguments) => IsErrorResult
        /\ (SentName.v = "calculate" /\ DivideByZero(SentArguments)) => IsErrorResult

\* C3 (amended): a tools/call on a utility tool never yields an error
\* envelope.  For echo, calculate and text_stats, arguments that violate the
\* schema give result.isError true with a text "Invalid input: ..." and
\* divide by zero gives isError true with "Error: Division by zero";
\* get_current_time and generate_uuid ignore their arguments and return a
\* result without isError.
C3_UtilityErrorsInBand ==
    CallOf(UtilityTools) =>
        /\ SuccessEnvelope
        /\ (SentName.v \in ToolsWithInput /\ ~SatisfiesSchema(SentName.v, SentArguments)) =>
                InBandError("Invalid input: ") /\ Len(ResultText.s) > Len("Invalid input: ")
        /\ (SentName.v = "calculate" /\ DivideByZero(SentArguments)) =>
                InBandError("Error: Division by zero")
        /\ SentName.v \notin ToolsWithInput => ~Has(Result, "isError")

\* calculate is called with operation divide and b = 0 and answers in band.
C3_Witness ==
    /\ CallOf({"calculate"})
    /\ DivideByZero(SentArguments)
    /\ SuccessEnvelope /\ IsErrorResult

\* Every memory schema requires userId to be a non-empty string.
UserIdInvalid(a) == ~IsTextOf(a, "userId", 1, 50000)

\* C4: a tools/call on a memory tool whose arguments violate the tool's
\* schema is answered with an error envelope of code -32602 that carries the
\* validation message as error data, not with a result, and no tool runs.
C4_MemoryValidationIsInvalidParams ==
    (CallOf(MemoryTools) /\ UserIdInvalid(SentArguments)) =>
        /\ EnvHas("error") /\ ~EnvHas("result")
        /\ ErrorCode = INVALID_PARAMS
        /\ Has(Envelope.v.error, "data") /\ Envelope.v.error.v.data.t = "string"

\* C5: a tools/call with a non-null id whose params are absent, whose name is
\* missing or not a string, or whose name is not a registered tool is
\* answered with error -32602 and no tool function runs.
C5_BadToolNameIsInvalidParams ==
    (ToolCall /\ (SentName.t # "string" \/ SentName.v \notin RegisteredTools)) =>
        /\ response.statusCode = 200
        /\ EnvHas("error") /\ ~EnvHas("result")
        /\ ErrorCode = INVALID_PARAMS
        /\ RanSet \cap ToolFunctions = {}

\* A call that names a tool the registry does not hold.
C5_Witness ==
    /\ ToolCall
    /\ SentName = Str("nonexistent_tool")
    /\ EnvHas("error") /\ ErrorCode = INVALID_PARAMS

-----------------------------------------------------------------------------
(* Method routing and the failures before it *)

KnownMethods == {"initialize", "tools/list", "tools/call", "ping"}

Contains(s, part) ==
    \E i \in 0..(Len(s) - Len(part)) : SubSeq(s, i + 1, i + Len(part)) = part

ErrorMessage == Envelope.v.error.v.message.v

\* C6: a valid request with a string or number id whose method is none of
\* initialize, tools/list, tools/call, ping is answered with error -32601,
\* a message that contains the method name verbatim, and the request's id.
C6_UnknownMethodNotFound ==
    (RequestWithId /\ Sent.v.method.v \notin KnownMethods) =>
        /\ EnvHas("error") /\ ~EnvHas("result")
        /\ ErrorCode = METHOD_NOT_FOUND
        /\ Contains(ErrorMessage, Sent.v.method.v)
        /\ Envelope.v.id = Sent.v.id

\* The unknown method foo/bar is named in the error message.
C6_Witness ==
    /\ RequestWithId
    /\ Sent.v.method = Str("foo/bar")
    /\ EnvHas("error") /\ Contains(ErrorMessage, "foo/bar")

BodyUnparseable == event.body \in MalformedTexts

\* C7: a POST whose body is not parseable as JSON is answered with error
\* -32700; the envelope is not validated, so it never yields -32600 and
\* never reaches the notification check or method routing.
C7_UnparseableIsParseError ==
    (Responded /\ Post /\ BodyUnparseable) =>
        /\ EnvHas("error") /\ ~EnvHas("result")
        /\ ErrorCode = PARSE_ERROR /\ ErrorCode # INVALID_REQUEST
        /\ ran = <<"JSON.parse">>

\* A truncated JSON-RPC request is answered with a parse error.
C7_Witness ==
    /\ Responded /\ Post
    /\ event.body = Text("{\"jsonrpc\": \"2.0\", ")
    /\ EnvHas("error") /\ ErrorCode = PARSE_ERROR

\* The properties of a decoded body that break the request shape ("" when
\* the body is not an object at all).
ViolatedFields(v) ==
    IF v.t # "object" THEN {""}
    ELSE {k \in {"jsonrpc"} : Get(v, "jsonrpc") # Str("2.0")}
         \cup {k \in {"id"} : Get(v, "id").t \notin {"undefined", "string", "number", "null"}}
         \cup {k \in {"method"} : Get(v, "method").t # "string"}
         \cup {k \in {"params"} : Get(v, "params").t \notin {"undefined", "object"}}

ErrorData == Envelope.v.error.v.data

\* C8: a POST whose body parses as JSON but violates the request shape is
\* answered with error -32600 whose data lists the violations, one for each
\* offending property, and no method handler runs.
C8_BadShapeIsInvalidRequest ==
    (Responded /\ Post /\ SentJson /\ ~WellFormed(Sent)) =>
        /\ EnvHas("error") /\ ~EnvHas("result")
        /\ ErrorCode = INVALID_REQUEST
        /\ Has(Envelope.v.error, "data") /\ ErrorData.t = "array"
        /\ {ErrorData.v[i].path : i \in DOMAIN ErrorData.v} = ViolatedFields(Sent)
        /\ RanSet \cap (MethodHandlers \cup ToolFunctions) = {}

\* A request whose only fault is an id of type boolean.
C8_Witness ==
    /\ Responded /\ Post /\ SentJson
    /\ ViolatedFields(Sent) = {"id"}
    /\ EnvHas("error") /\ ErrorCode = INVALID_REQUEST

BadHttpMethod == event.httpMethod \notin {"POST", "OPTIONS"}

\* C9 (as stated): an envelope is sent with status 200, except for a bad
\* HTTP method (405) and an unparseable body (400).
C9_AsStated ==
    (Responded /\ HasEnvelope) =>
        \/ response.statusCode = 200
        \/ response.statusCode = 405 /\ BadHttpMethod
        \/ response.statusCode = 400 /\ Post /\ BodyUnparseable

\* C9 (amended): every envelope produced by method routing is sent with
\* status 200, result or error; the other envelopes are those of a bad HTTP
\* method (405), of an unparseable body (400) and of a parseable body that
\* fails the validation of the request shape (400).
C9_EnvelopeStatus ==
    /\ RequestWithId => HasEnvelope /\ response.statusCode = 200
    /\ (Responded /\ HasEnvelope) =>
        \/ response.statusCode = 200 /\ RequestWithId
        \/ response.statusCode = 405 /\ BadHttpMethod
        \/ response.statusCode = 400 /\ Post /\ BodyUnparseable
        \/ response.statusCode = 400 /\ Post /\ ~BodyUnparseable
              /\ ~(SentJson /\ WellFormed(Sent)) /\ ErrorCode = INVALID_REQUEST

\* An error envelope (unknown tool) sent with status 200.
C9_Witness ==
    /\ ToolCall
    /\ EnvHas("error") /\ ErrorCode = INVALID_PARAMS
    /\ response.statusCode = 200

\* C10: a request whose HTTP method is neither POST nor OPTIONS gets 405
\* with an error envelope of code -32600 whatever its body, which is not
\* parsed; an OPTIONS request gets an empty body and its body is neither
\* parsed nor routed.
C10_HttpMethodCheckedFirst ==
    /\ (Responded /\ BadHttpMethod) =>
            /\ response.statusCode = 405
            /\ EnvHas("error") /\ ~EnvHas("result")
            /\ ErrorCode = INVALID_REQUEST
            /\ ran = <<>>
    /\ (Responded /\ event.httpMethod = "OPTIONS") =>
            /\ response.statusCode = 204
            /\ response.body = EmptyBody
            /\ ran = <<>>

\* A GET with an unparseable body is refused with 405.
C10_Witness ==
    /\ Responded /\ event.httpMethod = "GET" /\ BodyUnparseable
    /\ response.statusCode = 405

-----------------------------------------------------------------------------
(* C11: the registry is fixed for the process lifetime *)

Listing == Responded /\ "handleToolsList" \in RanSet
ListedTools == Result.v.tools.v
Names(defs) == [i \in DOMAIN defs |-> defs[i].name]
SchemaShaped(def) ==
    /\ {"type", "properties", "required"} \subseteq DOMAIN def.inputSchema
    /\ def.inputSchema.type = "object"

\* C11: every answer to tools/list, whatever requests (tools/call included)
\* the process has served before it, carries the tool definitions of the first
\* answer: the same definitions, so the same names in the same order; and each
\* definition has an inputSchema of type object with properties and a required
\* list.
C11_RegistryFixed ==
    Listing =>
        /\ SuccessEnvelope
        /\ listed # Undefined
        /\ Result.v.tools = listed.tools
        /\ Names(ListedTools) = Names(listed.tools.v)
        /\ \A i \in DOMAIN ListedTools : SchemaShaped(ListedTools[i])

\* A tools/list answered after an earlier tools/list and a tool execution.
C11_Witness == Listing /\ listed # Undefined /\ listed.called /\ Len(ListedTools) > 0

-----------------------------------------------------------------------------
(* C12: all ten documented tools are exposed *)

DocumentedTools == UtilityTools \cup MemoryTools

\* C12: tools/list enumerates the ten documented tools (the five utility tools
\* and memory_save, memory_search, memory_forget, memory_list, memory_update),
\* and a tools/call naming any one of them is dispatched to the tool's handler,
\* not rejected as an unknown tool.
C12_AllTenToolsExposed ==
    /\ Listing => DocumentedTools \subseteq Range(Names(ListedTools))
    /\ CallOf(DocumentedTools) =>
          /\ "executeTool" \in RanSet
          /\ ~(EnvHas("error") /\ StartsWith(ErrorMessage, "Unknown tool"))

-----------------------------------------------------------------------------
(* C13: a failing tool handler is an internal error *)

ToolFailed == Responded /\ thrown # NoFault
ErrorDataIs(text) == Has(Envelope.v.error, "data") /\ ErrorData = Str(text)

-----------------------------------------------------------------------------
(* Vocabulary of the memory properties: the call as the caller made it, the *)
(* table before and after it, and the answer.                               *)

Called(tool) == memcall # NoCall /\ memcall.tool = tool
CalledAny == memcall # NoCall
Args == memcall.args
Arg(k) == IF IsObject(Args) THEN Get(Args, k) ELSE Undefined

InputSchema(tool, args) ==
    CASE tool = "memory_save"   -> MemorySaveInputSchema(args)
      [] tool = "memory_search" -> MemorySearchInputSchema(args)
      [] tool = "memory_forget" -> MemoryForgetInputSchema(args)
      [] tool = "memory_list"   -> MemoryListInputSchema(args)
      [] tool = "memory_update" -> MemoryUpdateInputSchema(args)

Validated == CalledAny /\ InputSchema(memcall.tool, Args).success
Answered == memcall.outcome.kind = "return"
Answer == memcall.outcome.value
AnswerFlagged == Answered /\ Has(Answer, "isError") /\ Answer.v.isError = Bool(TRUE)
AnswerJson == Answer.v.content.v[1].text.v
AnswerError == AnswerJson.v.error.v
ConfigMissing == ~Truthy(env.SUPABASE_URL) \/ ~Truthy(env.SUPABASE_ANON_KEY)

-----------------------------------------------------------------------------
(* C14: a memory handler never raises once its arguments are valid *)

\* C14: a memory handler called with arguments that pass its schema returns a
\* Tool Result, it does not throw; when the storage configuration is missing
\* the result has isError true and carries the configuration message; when
\* the store answers with an error descriptor it has isError true and carries
\* the descriptor's message; when the request raises it has isError true.
C14_ValidatedHandlerNeverRaises ==
    Validated =>
        /\ Answered
        /\ ConfigMissing =>
              /\ AnswerFlagged
              /\ AnswerError \in {MissingUrlMessage, MissingKeyMessage}
        /\ (~ConfigMissing /\ memcall.fate = "error") =>
              /\ AnswerFlagged
              /\ Contains(AnswerError, StoreFailure.message)
        /\ (~ConfigMissing /\ memcall.fate = "throw") => AnswerFlagged

\* A valid memory_update whose request raised inside the handler.
C14_Witness ==
    /\ Called("memory_update") /\ Validated
    /\ ~ConfigMissing /\ memcall.fate = "throw" /\ memcall.sent # <<>>
    /\ AnswerFlagged

-----------------------------------------------------------------------------
(* C15: every memory operation is scoped by userId *)

Before == memcall.before
Caller == Arg("userId")
OwnedBy(rows, user) == {r \in rows : r.user_id = user}
NotOwnedBy(rows, user) == {r \in rows : r.user_id # user}
Touched == (Before \ store) \cup (store \ Before)

\* The records a call returned: the memories of a search or list, the memory
\* of an update.
ReturnedRecords ==
    IF ~Answered \/ AnswerFlagged THEN {}
    ELSE IF memcall.tool \in {"memory_search", "memory_list"}
    THEN Range(AnswerJson.v.memories.v)
    ELSE IF memcall.tool = "memory_update" THEN {AnswerJson.v.memory}
    ELSE {}

\* C15: whatever calls came before, a memory call made with userId u returns
\* only records whose userId is u; the rows it inserts, changes or deletes
\* all have user_id u, and the rows of every other user are the same after the
\* call as before it.  A call without a usable userId touches nothing.
C15_ScopedByUser ==
    CalledAny =>
        /\ \A m \in ReturnedRecords : Get(m, "userId") = Caller
        /\ \A r \in Touched : r.user_id = Caller
        /\ NotOwnedBy(store, Caller) = NotOwnedBy(Before, Caller)

\* A memory_update by one user that changed that user's row while the table
\* also held a row of another user.
C15_Witness ==
    /\ Called("memory_update") /\ Touched # {}
    /\ ReturnedRecords # {}
    /\ NotOwnedBy(Before, Caller) # {}

-----------------------------------------------------------------------------
(* C16: memory_forget requires id or contentMatch *)

Blank(x) == x = Undefined \/ x = Str("")
Deletes == {q \in Range(memcall.sent) : q.verb = "delete"}
FilterOn(q, op, column) ==
    \E i \in DOMAIN q.filters : q.filters[i].op = op /\ q.filters[i].column = column
Refused ==
    /\ memcall.outcome.kind = "throw"
    /\ memcall.outcome.error.class = "InvalidParamsError"

\* C16: a memory_forget call whose id and contentMatch are both absent or
\* empty fails validation and sends no delete; and every delete a call sends
\* to the store is filtered on user_id equal to the caller's userId together
\* with an equality filter on id or a pattern filter on content.
C16_ForgetNeedsIdOrContent ==
    CalledAny =>
        /\ (Called("memory_forget") /\ IsObject(Args)
            /\ Blank(Arg("id")) /\ Blank(Arg("contentMatch"))) =>
              /\ Refused
              /\ memcall.sent = <<>>
              /\ store = Before
        /\ \A q \in Deletes :
              /\ \E i \in DOMAIN q.filters : q.filters[i] = Eq("user_id", Caller.v)
              /\ FilterOn(q, "eq", "id") \/ FilterOn(q, "ilike", "content")

\* A memory_forget with a userId and an empty id and contentMatch, refused
\* while the user has a record.
C16_Witness ==
    /\ Called("memory_forget") /\ Arg("id") = Str("") /\ Arg("contentMatch") = Str("")
    /\ Truthy(Caller) /\ OwnedBy(store, Caller) # {}
    /\ Refused

-----------------------------------------------------------------------------
(* C17: memory_forget deletes exactly the intended set *)

RECURSIVE LowerText(_)
LowerText(s) == IF s = "" THEN "" ELSE Lower(Char(s, 1)) \o LowerText(Rest(s))

\* part occurs in text, letters compared without regard to case
ContainsIgnoringCase(text, part) == Contains(LowerText(text), LowerText(part))

Executed == Validated /\ ~ConfigMissing /\ memcall.fate = "ok"

\* The records a memory_forget call is meant to delete.
ForgetTarget ==
    IF Truthy(Arg("id"))
    THEN {r \in OwnedBy(Before, Caller) : r.id = Arg("id")}
    ELSE {r \in OwnedBy(Before, Caller) :
            ContainsIgnoringCase(r.content.v, Arg("contentMatch").v)}

\* C17: a memory_forget that the store executes deletes exactly its target:
\* with an id, the caller's record of that id (contentMatch is ignored);
\* otherwise the caller's records whose content contains contentMatch as a
\* case-insensitive substring, for every contentMatch string.  The answer has
\* no error flag and its deletedCount is the number of records removed, 0 when
\* nothing matched.
C17_ForgetDeletesExactly ==
    (Called("memory_forget") /\ Executed) =>
        /\ store = Before \ ForgetTarget
        /\ ~AnswerFlagged
        /\ AnswerJson.v.deletedCount = Num(Cardinality(ForgetTarget))

-----------------------------------------------------------------------------
(* C18: memory_update changes only the supplied fields *)

UpdateTarget == {r \in OwnedBy(Before, Caller) : r.id = Arg("id")}
Supplied == {k \in UpdatableFields : Arg(k) # Undefined}
Columns == {"id", "user_id", "session_id", "type", "content", "tags", "importance",
            "created_at", "updated_at"}

\* C18: a memory_update that the store executes on an existing record of the
\* caller replaces that one row by a row in which each of content, type, tags
\* and importance present in the arguments has the argument's value, every
\* other column except updated_at (id, user_id, session_id, created_at and the
\* fields not supplied) is as before, and updated_at is the instant of the
\* call, later than the old one, also when no optional field is supplied; no
\* other row changes.
C18_UpdateChangesOnlySupplied ==
    (Called("memory_update") /\ Executed /\ UpdateTarget # {}) =>
        \E old \in UpdateTarget, new \in store :
            /\ store = (Before \ {old}) \cup {new}
            /\ \A c \in Supplied : new[c] = Arg(c)
            /\ \A c \in Columns \ (Supplied \cup {"updated_at"}) : new[c] = old[c]
            /\ new.updated_at = Str(IsoOf(clock))
            /\ TimeOf(new.updated_at) > TimeOf(old.updated_at)
            /\ ~AnswerFlagged
            /\ AnswerJson.v.memory = toMemoryOutput(new)

\* A memory_update with no optional field, executed on a record of the caller
\* that has tags and a session, beside a second row.
C18_Witness ==
    /\ Called("memory_update") /\ Executed /\ Supplied = {}
    /\ \E old \in UpdateTarget : old.session_id # Null /\ old.tags # Arr(<<>>)
    /\ Cardinality(store) = 2
    /\ ~AnswerFlagged

-----------------------------------------------------------------------------
(* C19: memory_update of a record that does not exist for the caller *)

NotFoundMessage == "Memory not found or not owned by user"

\* C19: a memory_update that the store executes and whose (userId, id) matches
\* no record, the id being unknown or the record another user's, returns a
\* Tool Result with isError true that says the memory was not found or not
\* owned by the user; it does not throw, and the table is left as it was.
C19_UpdateOfMissingSaysNotFound ==
    (Called("memory_update") /\ Executed /\ UpdateTarget = {}) =>
        /\ AnswerFlagged
        /\ AnswerError = NotFoundMessage
        /\ store = Before

-----------------------------------------------------------------------------
(* C20: a saved memory is found by the search that follows *)

Query == Arg("query").v
Limit == IF Arg("limit") = Undefined THEN SearchLimitDefault ELSE Arg("limit").v
SavedJustBefore == IF CalledAny THEN {r \in Before : r.id = justSaved} ELSE {}
FoundIds == {Get(m, "id") : m \in ReturnedRecords}

\* A plain memory_search (no type, no sessionId) that the store executes
\* right after a successful memory_save of the same user, with a query that
\* is a substring of the saved content.
SearchAfterSave(saved) ==
    /\ Called("memory_search") /\ Executed
    /\ Arg("type") = Undefined /\ Arg("sessionId") = Undefined
    /\ saved.user_id = Caller
    /\ Contains(saved.content.v, Query)

\* The caller's other records that the search matches and that have a higher
\* importance than saved; the records of equal importance are older than it.
Outranking(saved) ==
    {r \in OwnedBy(Before, Caller) \ {saved} :
        /\ Like("%" \o Query \o "%", r.content.v)
        /\ r.importance # Null /\ r.importance.v > saved.importance.v}

PlainQuery == ~Contains(Query, "\\")

-----------------------------------------------------------------------------
(* C21: a forgotten record is not listed *)

TypeMatches(r) == ~Truthy(Arg("type")) \/ r.type = Arg("type")
ListMatching(rows) == {r \in OwnedBy(rows, Caller) : TypeMatches(r)}

\* A memory_list that the store executes right after a memory_forget of the
\* same userId by id that completed without error.
ListAfterForget ==
    /\ Called("memory_list") /\ Executed
    /\ justForgot # Null /\ justForgot.userId = Caller

\* C21: a memory_list of a userId that follows a memory_forget of that userId
\* by id that completed without error, whatever its type, limit and offset,
\* returns no record with that id, and the total it reports is the number of
\* the user's matching records, none of which has that id.
C21_ForgottenNotListed ==
    ListAfterForget =>
        /\ justForgot.id \notin FoundIds
        /\ \A r \in ListMatching(Before) : r.id # justForgot.id
        /\ ~AnswerFlagged =>
              AnswerJson.v.total = Num(Cardinality(ListMatching(Before)))

\* A list that returned a record of the user right after a forget by id that
\* had removed another record of that user.
C21_Witness ==
    /\ ListAfterForget
    /\ justForgot.deletedCount = Num(1)
    /\ ReturnedRecords # {}

-----------------------------------------------------------------------------
(* C22: memory_list returns a window and the total *)

ListLimit == IF Arg("limit") = Undefined THEN ListLimitDefault ELSE Arg("limit").v
ListOffset == IF Arg("offset") = Undefined THEN 0 ELSE Arg("offset").v
Newer(r, rows) == {o \in rows : TimeOf(o.created_at) > TimeOf(r.created_at)}
Max(a, b) == IF a > b THEN a ELSE b

\* C22: a memory_list that the store executes returns, in memories, the
\* records of the userId (of the given type, when one is given) whose rank in
\* createdAt-descending order lies in [offset, offset + limit), in that order
\* (limit 20 and offset 0 when absent), and in total the number of all the
\* matching records, whatever offset and limit are.
C22_ListIsWindowWithTotal ==
    (Called("memory_list") /\ Executed) =>
        /\ ~AnswerFlagged
        /\ LET all == ListMatching(Before)
               memories == AnswerJson.v.memories.v
           IN /\ AnswerJson.v.total = Num(Cardinality(all))
              /\ Len(memories) = Max(0, Min(ListLimit, Cardinality(all) - ListOffset))
              /\ \A i \in DOMAIN memories :
                    \E r \in all : /\ memories[i] = toMemoryOutput(r)
                                   /\ Cardinality(Newer(r, all)) = ListOffset + i - 1

-----------------------------------------------------------------------------
(* C23: memory_search returns the first matches in rank order *)

SessionMatches(r) == ~Truthy(Arg("sessionId")) \/ r.session_id = Arg("sessionId")

\* The caller's records that contain the query, case ignored, and pass the
\* type and sessionId filters.
SearchMatching(rows) ==
    {r \in OwnedBy(rows, Caller) :
        /\ ContainsIgnoringCase(r.content.v, Query)
        /\ TypeMatches(r) /\ SessionMatches(r)}

\* The rows that come before r: higher importance (null importance last),
\* or the same importance and created later.
Ahead(r, rows) ==
    {o \in rows :
        \/ o.importance # Null /\ r.importance = Null
        \/ o.importance # Null /\ r.importance # Null
              /\ o.importance.v > r.importance.v
        \/ o.importance = r.importance
              /\ TimeOf(o.created_at) > TimeOf(r.created_at)}

SearchIsFirstMatches ==
    /\ ~AnswerFlagged
    /\ LET all == SearchMatching(Before)
           memories == AnswerJson.v.memories.v
       IN /\ Len(memories) = Min(Limit, Cardinality(all))
          /\ \A i \in DOMAIN memories :
                \E r \in all : /\ memories[i] = toMemoryOutput(r)
                               /\ Cardinality(Ahead(r, all)) = i - 1

\* C23: a memory_search that the store executes returns the first limit
\* (default 10) records, in the order importance descending with null last
\* and then createdAt descending, of the set of the userId's records that
\* contain query as a case-insensitive substring of content and pass the type
\* and sessionId filters when given.
C23_SearchReturnsFirstMatches ==
    (Called("memory_search") /\ Executed) => SearchIsFirstMatches

-----------------------------------------------------------------------------
(* C24: which Tool Results carry JSON *)

AnswerText == Answer.v.content.v[1].text

\* The text decodes as JSON into an object with exactly these properties.
DecodesTo(text, keys) ==
    LET decoded == JSONparse(text)
    IN decoded.ok /\ IsObject(decoded.value) /\ DOMAIN decoded.value.v = keys

\* The properties of the output of each tool.
OutputShape(tool) ==
    CASE tool = "echo"             -> {"text"}
      [] tool = "get_current_time" -> {"utc", "timestamp"}
      [] tool = "calculate"        -> {"operation", "a", "b", "result"}
      [] tool = "generate_uuid"    -> {"uuid"}
      [] tool = "text_stats"       -> {"characters", "words", "sentences",
                                       "averageWordLength"}
      [] tool = "memory_save"      -> {"id", "saved"}
      [] tool = "memory_search"    -> {"memories"}
      [] tool = "memory_forget"    -> {"deletedCount"}
      [] tool = "memory_list"      -> {"memories", "total"}
      [] tool = "memory_update"    -> {"memory", "updated"}
      [] OTHER                     -> {}

ErrorShape == {"error"}

-----------------------------------------------------------------------------
(* C25: requests are handled statelessly *)

Method(m) == RequestWithId /\ Sent.v.method = Str(m)

InitializeResult ==
    Obj([protocolVersion |-> Str("2024-11-05"),
         capabilities |-> Obj([tools |-> Obj([listChanged |-> Bool(FALSE)])]),
         serverInfo |-> Obj([name |-> Str("chatgpt-mcp-server"),
                             version |-> Str("1.0.0")])])

\* The arguments a tools/call hands to the tool, {} when none are sent, and
\* the results the tool gives for them over the clock and the random draws.
GivenArguments == IF Truthy(SentArguments) THEN SentArguments ELSE Obj(EmptyFields)
ToolResults ==
    {executeTool(SentName.v, GivenArguments, now, rnd).value :
        now \in Instants, rnd \in Draws}

\* C25: whatever requests were answered before, and whether or not an
\* initialize was among them, a request with an id is answered from the
\* request alone: initialize with the same fixed result whatever its params,
\* tools/list with the registry, ping with the empty object, and tools/call on
\* a utility tool with the result of that tool for the given arguments (up to
\* the clock and the random draw).
C25_Stateless ==
    /\ Method(INITIALIZE) => (SuccessEnvelope /\ Result = InitializeResult)
    /\ Method(TOOLS_LIST) => (SuccessEnvelope /\ Result = Obj([tools |-> Arr(toolDefinitions)]))
    /\ Method(PING) => (SuccessEnvelope /\ Result = Obj(EmptyFields))
    /\ CallOf(UtilityTools) => (SuccessEnvelope /\ Result \in ToolResults)

\* A tools/call of a utility tool answered, after a tools/list, in a process
\* that never answered an initialize.
C25_Witness ==
    /\ CallOf(UtilityTools) /\ SuccessEnvelope
    /\ ~initialized /\ listed # Undefined

-----------------------------------------------------------------------------
(* C26: the storage client is created lazily and at most once *)

GotClient == Called("getSupabaseClient")
Incomplete(config) ==
    ~Truthy(config.SUPABASE_URL) \/ ~Truthy(config.SUPABASE_ANON_KEY)
RaisedConfigError ==
    /\ memcall.outcome.kind = "throw"
    /\ memcall.outcome.error.class = "SupabaseConfigError"

\* C26: without resetSupabaseClient, supabaseInstance is null as long as no
\* getSupabaseClient call has returned; a call that finds it null while
\* SUPABASE_URL or SUPABASE_ANON_KEY is missing raises SupabaseConfigError and
\* leaves it null; a call that finds it null with both set constructs the
\* client from them, caches and returns it; a call that finds it set returns
\* it and leaves it in place whatever process.env holds by then.  So all the
\* calls of the process return one and the same client.
C26_LazySingleton ==
    /\ ~GotClient => supabaseInstance = Null
    /\ GotClient =>
          /\ memcall.returned = {} => supabaseInstance = Null
          /\ memcall.returned # {} => memcall.returned = {supabaseInstance}
          /\ (memcall.before = Null /\ Incomplete(memcall.config)) =>
                (RaisedConfigError /\ supabaseInstance = Null)
          /\ (memcall.before = Null /\ ~Incomplete(memcall.config)) =>
                /\ memcall.outcome = Returned(supabaseInstance, "getSupabaseClient")
                /\ supabaseInstance = [url |-> memcall.config.SUPABASE_URL.v,
                                       key |-> memcall.config.SUPABASE_ANON_KEY.v]
          /\ memcall.before # Null =>
                /\ memcall.outcome = Returned(memcall.before, "getSupabaseClient")
                /\ supabaseInstance = memcall.before

\* A call that returned the cached client although process.env had changed
\* since the client was constructed and lacked SUPABASE_URL.
C26_Witness ==
    /\ GotClient /\ memcall.before # Null
    /\ memcall.outcome.kind = "return"
    /\ ~Truthy(memcall.config.SUPABASE_URL)

-----------------------------------------------------------------------------
(* C27: a memory tool call is a single attempt *)

Requests == memcall.sent

\* C27: a call of a memory handler sends at most one request to the store,
\* also when the store answers with an error or the request raises; it sends
\* none when its arguments fail validation or when the storage
\* configuration is missing, and exactly one otherwise.
C27_SingleAttempt ==
    CalledAny =>
        /\ Len(Requests) <= 1
        /\ (~Validated \/ ConfigMissing) => Requests = <<>>
        /\ (Validated /\ ~ConfigMissing) => Len(Requests) = 1

\* A valid memory_save whose one insert the store answered with an error:
\* the handler returned the failure and the table is as before.
C27_Witness ==
    /\ Called("memory_save") /\ Validated /\ ~ConfigMissing
    /\ memcall.fate = "error" /\ AnswerFlagged
    /\ Len(Requests) = 1 /\ Requests[1].verb = "insert"
    /\ store = Before

-----------------------------------------------------------------------------
(* C28: concurrent memory_update calls on one record *)

UpdateOf(c) == memcall.calls[c]
Finished(c) == UpdateOf(c).stage = "done"
Gives(c, f) == Finished(c) /\ Get(UpdateOf(c).args, f) # Undefined
GivenBy(c, f) == Get(UpdateOf(c).args, f)
Record == CHOOSE r \in store : r.id = Str("m1")
Original == CHOOSE r \in RaceRows : r.id = Str("m1")

-----------------------------------------------------------------------------
(* C29: envelopes produced before method routing carry id null *)

\* An envelope answered to a request that does not get to method routing:
\* the HTTP method is not POST, or the body is not a well-formed request.
BeforeRouting == Responded /\ HasEnvelope /\ ~ValidRequest

\* The body holds an object with a string or number id.
SentAnId ==
    /\ SentJson /\ IsObject(Sent)
    /\ Get(Sent, "id").t \in {"string", "number"}

\* C29: an envelope produced before method routing (HTTP method not allowed,
\* parse error, invalid envelope) is an error envelope with id null, also when
\* the body holds a string or number id; an envelope with a non-null id
\* answers a well-formed POST request, echoes its id and has status 200.
C29_NullIdBeforeRouting ==
    /\ BeforeRouting =>
          /\ response.statusCode \in {400, 405}
          /\ EnvHas("error") /\ ~EnvHas("result")
          /\ EnvHas("id") /\ Envelope.v.id = Null
    /\ (Responded /\ EnvHas("id") /\ Envelope.v.id # Null) =>
          /\ RequestWithId
          /\ Envelope.v.id = Sent.v.id
          /\ response.statusCode = 200

\* A POST whose body holds a number id and a wrong jsonrpc version, answered
\* with id null.
C29_Witness ==
    /\ BeforeRouting /\ Post /\ SentAnId
    /\ Get(Sent, "id").t = "number"
    /\ Get(Sent, "jsonrpc") = Str("1.0")
    /\ Envelope.v.id = Null

-----------------------------------------------------------------------------
(* C30: an empty or absent body is the empty object *)

NoBody == Responded /\ Post /\ event.body \in {Null, Text("")}

\* What the handler answers to a POST whose body is the text {}.
AnswerToEmptyObject ==
    LET now == CHOOSE n \in Instants : TRUE
        rnd == CHOOSE d \in Draws : TRUE
        r == handler([httpMethod |-> "POST", body |-> Text("{}")], now, rnd, NoFault)
    IN [statusCode |-> r.statusCode, body |-> r.body]

\* C30: a POST with an empty or absent body is answered as a POST of {} is:
\* with status 400 and the error INVALID_REQUEST (-32600) and id null, not
\* with PARSE_ERROR (-32700) and not with the 204 of a notification.
C30_NoBodyIsEmptyObject ==
    NoBody =>
        /\ response = AnswerToEmptyObject
        /\ response.statusCode = 400
        /\ EnvHas("error") /\ ErrorCode = INVALID_REQUEST
        /\ Envelope.v.error.v.message = Str("Invalid JSON-RPC request")
        /\ Envelope.v.id = Null
        /\ "safeParse" \in RanSet /\ RanSet \cap MethodHandlers = {}

\* A POST with the empty string as body, answered -32600.
C30_Witness ==
    /\ NoBody /\ event.body = Text("")
    /\ EnvHas("error") /\ ErrorCode = INVALID_REQUEST

====
